---- MODULE Spec2Model ----
(***************************************************************************)
(* Model of the openApiGo rendering pipeline (pkg/markdown).               *)
(*                                                                         *)
(* One behaviour is a sequence of ToMarkdown calls on one input document:  *)
(* the dispatcher normalises the bytes, reads the two version probes,      *)
(* selects an adapter, and the adapter writes the document section by      *)
(* section into a buffer.  The call is repeated on the same input so that  *)
(* two results can be compared.  A behaviour starts either at the call of  *)
(* ToMarkdown or in the command (cmd/openapi-go-md), which first parses    *)
(* its --format flag.                                                      *)
(*                                                                         *)
(* Text is modelled structurally.  A Go string is a sequence of byte       *)
(* values; an output line is the format string of the Fprintf that wrote   *)
(* it together with its string arguments; the rendered document is the     *)
(* sequence of its lines ("" is the empty sequence).  Iterating a Go map   *)
(* with range is modelled as iterating an arbitrary permutation of its     *)
(* keys.                                                                   *)
(***************************************************************************)
EXTENDS Naturals, Integers, Sequences, FiniteSets, TLC

VARIABLES formatFlag, data, opts, pc, jsonData, mode, vp, buf, aret, ret, calls, run, outs

vars == <<formatFlag, data, opts, pc, jsonData, mode, vp, buf, aret, ret, calls, run, outs>>

(***************************************************************************)
(* Bounds of the model.                                                    *)
(***************************************************************************)
MaxTagLen == 2      \* longest tag list of an operation
MaxOps == 2         \* most operations in one document
MaxSchemes == 2     \* most security-scheme declarations in one document
Runs == 2           \* render calls made on the same document

(***************************************************************************)
(* Strings as byte sequences.                                              *)
(***************************************************************************)
\* A nilable value (pointer, parsed container) is Nil or Some(v).
Nil == <<>>
Some(v) == <<v>>
Val(o) == o[1]
\* A map without entries.
EmptyMap == [x \in {} |-> x]

Str_a == <<97>>
Str_b == <<98>>
Str_Untagged == <<85, 110, 116, 97, 103, 103, 101, 100>>
Str_default == <<100, 101, 102, 97, 117, 108, 116>>
Str_appjson == <<106>>
Str_pathAB == <<47, 97, 47, 98>>
Str_pathB == <<47, 98>>
Str_2 == <<50>>
Str_20 == <<50, 46, 48>>
Str_3 == <<51>>
Str_3dot == <<51, 46>>
Str_31 == <<51, 46, 49>>
Str_200 == <<50, 48, 48>>
Str_404 == <<52, 48, 52>>
Str_99 == <<57, 57>>
Str_title == <<84>>
Str_host == <<104>>
Str_appxml == <<120>>
Str_alt == <<97, 108, 116>>
Str_ok == <<111, 107>>
Str_okPadded == <<32, 111, 107, 32>>
Str_blank == <<32>>
Str_id == <<105, 100>>
Str_body == <<98, 111, 100, 121>>
Str_query == <<113, 117, 101, 114, 121>>
Str_path == <<112, 97, 116, 104>>
Str_array == <<97, 114, 114, 97, 121>>
Str_string == <<115, 116, 114, 105, 110, 103>>
Str_integer == <<105, 110, 116, 101, 103, 101, 114>>
Str_object == <<111, 98, 106, 101, 99, 116>>
Str_int32 == <<105, 110, 116, 51, 50>>
Str_Pet == <<80, 101, 116>>
Ref_PetA == <<35, 47, 100, 101, 102, 105, 110, 105, 116, 105, 111, 110, 115, 47, 80, 101, 116>>
Ref_PetB == <<35, 47, 99, 111, 109, 112, 111, 110, 101, 110, 116, 115, 47, 115, 99, 104, 101, 109,
              97, 115, 47, 80, 101, 116>>

GET == <<71, 69, 84>>
POST == <<80, 79, 83, 84>>
PUT == <<80, 85, 84>>
DELETE == <<68, 69, 76, 69, 84, 69>>
PATCH == <<80, 65, 84, 67, 72>>
OPTIONS == <<79, 80, 84, 73, 79, 78, 83>>
HEAD == <<72, 69, 65, 68>>
TRACE == <<84, 82, 65, 67, 69>>

Min(a, b) == IF a < b THEN a ELSE b

\* strings.HasPrefix(s, prefix)
HasPrefix(s, prefix) ==
    /\ Len(s) >= Len(prefix)
    /\ \A i \in 1..Len(prefix) : s[i] = prefix[i]

\* The order of sort.Strings: bytewise lexicographic, a proper prefix first.
LexLess(a, b) ==
    \E k \in 0..Min(Len(a), Len(b)) :
        /\ \A i \in 1..k : a[i] = b[i]
        /\ \/ k = Len(a) /\ k < Len(b)
           \/ k < Len(a) /\ k < Len(b) /\ a[k + 1] < b[k + 1]

RECURSIVE SortStringsDesc(_)
SortStringsDesc(S) ==
    IF S = {} THEN <<>>
    ELSE LET m == CHOOSE x \in S : \A y \in S \ {x} : LexLess(y, x)
         IN  <<m>> \o SortStringsDesc(S \ {m})

\* keys collected from a map, then sort.Strings(keys)
RECURSIVE SortStrings(_)
SortStrings(S) ==
    IF S = {} THEN <<>>
    ELSE LET m == CHOOSE x \in S : \A y \in S \ {x} : LexLess(x, y)
         IN  <<m>> \o SortStrings(S \ {m})

\* The orders in which a range loop may visit the keys of a map.
Perms(S) ==
    {s \in [1..Cardinality(S) -> S] :
        \A i, j \in 1..Cardinality(S) : i # j => s[i] # s[j]}

\* strconv of a status-code key: the numeric value of a digit string.
RECURSIVE Atoi(_)
Atoi(s) == IF s = <<>> THEN 0 ELSE 10 * Atoi(SubSeq(s, 1, Len(s) - 1)) + (s[Len(s)] - 48)

IsDigits(s) == Len(s) > 0 /\ \A i \in 1..Len(s) : s[i] \in 48..57

\* fmt %d of a non-negative int
RECURSIVE Itoa(_)
Itoa(n) == IF n < 10 THEN <<48 + n>> ELSE Itoa(n \div 10) \o <<48 + (n % 10)>>

SortIntsAsStrings(S) ==
    LET keys == SortStrings({Itoa(n) : n \in S})
    IN  [i \in 1..Len(keys) |-> Atoi(keys[i])]

\* sort.Ints(codes)
RECURSIVE SortInts(_)
SortInts(S) ==
    IF S = {} THEN <<>>
    ELSE LET m == CHOOSE x \in S : \A y \in S : x <= y
         IN  <<m>> \o SortInts(S \ {m})

\* fmt %q of a string without characters that need escaping
Quote(s) == <<34>> \o s \o <<34>>

(***************************************************************************)
(* Output lines and errors.                                                *)
(***************************************************************************)
Line(format, args) == [k |-> format, args |-> args]

Blank == Line("", <<>>)
NoneDefined == Line("- None defined", <<>>)
H1(title) == Line("# %s", <<title>>)
H2(name) == Line(name, <<>>)
H3(name) == Line("### %s", <<name>>)
H4(method, path) == Line("#### %s %s", <<method, path>>)

NoErr == [kind |-> "nil", args |-> <<>>]
Err(kind) == [kind |-> kind, args |-> <<>>]
Result(md, err) == [md |-> md, err |-> err]
NoResult == Result(<<>>, Err("pending"))

(***************************************************************************)
(* The input: raw bytes, described by what the parsers make of them.       *)
(*   syntax, top     what json.Unmarshal / yaml.Unmarshal see              *)
(*   swagger,openapi the values of the two top-level version keys          *)
(*   acceptsA/B      whether spec.Swagger / the openapi3 loader accept it  *)
(*   the rest        the parsed document; each adapter reads these fields  *)
(*                   through its own parser's structure                    *)
(*   schemas         the names of the schema definitions                   *)
(*   properties      definition name -> (property name -> schema node)     *)
(*   consumes        the document-wide consumed media types (dialect A)    *)
(*   required        definition name -> its list of required property names*)
(*   examples        definition name -> the example values it carries      *)
(***************************************************************************)
NotAString == <<0>>       \* a version key whose JSON value is not a string

TagNames == {Str_a, Str_b}
TagLists == UNION {[1..n -> TagNames] : n \in 0..MaxTagLen}

MediaTypes == {Str_appjson}

\* A JSON value as the parsers hold it: a string or a number.
StringValue(str) == [t |-> "string", s |-> str]
NumberValue(n) == [t |-> "number", n |-> n]

\* A schema node: its $ref, its declared types, its item schema (Nil when it
\* has none), its format, its default value (Nil when it declares none) and
\* its enum list.  An item schema is a node of which the model keeps the
\* $ref, the declared types and the item schema of its own.
NestedItem(ref, type, items) == [ref |-> ref, type |-> type, items |-> items]
Item(ref, type) == NestedItem(ref, type, Nil)
AnnotatedNode(ref, type, items, format, default, enum) ==
    [ref |-> ref, type |-> type, items |-> items, format |-> format,
     default |-> default, enum |-> enum]
SchemaNode(ref, type, items, format) == AnnotatedNode(ref, type, items, format, Nil, <<>>)

\* A response.  desc: the description ("" also when the key is absent);
\* schema: the schema of the response (dialect A) or of each of its content
\* entries (dialect B), Nil when there is none; examples: the media types
\* under "examples" (dialect A) or under "content" (dialect B); anon, named:
\* whether each content entry has an inline example, and the names of its
\* named examples that have a value (dialect B); external: the names of its
\* named examples that have no value of their own (dialect B).
ExternalResponse(desc, schema, examples, anon, named, external) ==
    [desc |-> desc, schema |-> schema, examples |-> examples, anon |-> anon,
     named |-> named, external |-> external]

FullResponse(desc, schema, examples, anon, named) ==
    ExternalResponse(desc, schema, examples, anon, named, {})

Response(desc, examples) == FullResponse(desc, Nil, examples, TRUE, {})

ResponseMaps ==
    { Nil,
      Some(EmptyMap),
      Some(Str_200 :> Response(<<>>, {})),
      Some(Str_200 :> Response(<<>>, MediaTypes)),
      Some((Str_200 :> Response(<<>>, MediaTypes)) @@ (Str_404 :> Response(<<>>, MediaTypes))),
      Some((Str_200 :> Response(<<>>, {})) @@ (Str_default :> Response(<<>>, MediaTypes))) }

\* The example values a schema carries, each Nil when absent: standard, its
\* own "example"; items, the "example" of its item schema; vendor, its
\* "x-example" extension.
ExampleSources(standard, items, vendor) ==
    [standard |-> standard, items |-> items, vendor |-> vendor]
NoExamples == ExampleSources(Nil, Nil, Nil)

\* the value of the examples whose value the model does not tell apart
SampleValue == StringValue(Str_ok)

\* A parameter.  type: the type declared on the parameter itself (dialect A);
\* schema: its schema, Nil when it has none; example: the example values
\* that schema carries.
Parameter(name, in, type, schema, example) ==
    [name |-> name, in |-> in, type |-> type, schema |-> schema, example |-> example,
     required |-> FALSE]

\* A request body (dialect B): its content entries, all of the same shape.
RequestBody(content, schema, anon, named) ==
    [content |-> content, schema |-> schema, anon |-> anon, named |-> named]

\* An operation.  piParameters: the parameters of the path item the
\* operation stands in; consumes: the media types it declares (dialect A).
FullOperation(tags, responses, piParameters, parameters, consumes, requestBody) ==
    [tags |-> tags, responses |-> responses, piParameters |-> piParameters,
     parameters |-> parameters, consumes |-> consumes, requestBody |-> requestBody]

Operation(tags, responses) == FullOperation(tags, responses, <<>>, <<>>, <<>>, Nil)

\* operations that differ in their tag list
TaggedOperations == {Operation(t, Some(Str_200 :> Response(<<>>, {}))) : t \in TagLists}

\* operations that differ in their responses
RespondingOperations == {Operation(<<>>, r) : r \in ResponseMaps}

\* the (path, method) places of the operations of a document
SlotsA == {<<Str_pathAB, GET>>, <<Str_pathB, GET>>, <<Str_pathB, POST>>}
SlotsB == {<<Str_pathAB, GET>>, <<Str_pathB, GET>>, <<Str_pathB, TRACE>>}
ResponseSlots == {<<Str_pathB, GET>>, <<Str_pathAB, TRACE>>}

\* operations with at most one tag
SingleTagged == {op \in TaggedOperations : Len(op.tags) <= 1}

\* The paths container: absent (Nil), or the operations keyed by (path, method).
\* The tag lists vary freely where a place is left empty; where every place
\* holds an operation, each operation has at most one tag.
PathMaps(slots) ==
    {Nil} \cup {Some(f) : f \in UNION {[S -> TaggedOperations] :
                        S \in {T \in SUBSET slots : Cardinality(T) <= MaxOps /\ T # slots}}}
          \cup {Some(f) : f \in UNION {[S -> SingleTagged] :
                        S \in {T \in SUBSET slots : Cardinality(T) <= MaxOps}}}
          \cup {Some(f) : f \in UNION {[S -> RespondingOperations] :
                        S \in {T \in SUBSET ResponseSlots : Cardinality(T) = 1}}}

SchemeNames == {Str_a, Str_b, Str_host}
\* name -> whether the declaration has a value (false: a JSON null)
SecurityMaps ==
    UNION {[S -> {TRUE}] : S \in {T \in SUBSET SchemeNames : Cardinality(T) <= MaxSchemes}}
        \cup {(Str_a :> FALSE)}

Info(title, version) == [title |-> title, version |-> version]

Document(sw, oa, accA, accB, info, sec, host, tags, paths, comps, schemas) ==
    [syntax |-> "json", top |-> "object", swagger |-> sw, openapi |-> oa,
     acceptsA |-> accA, acceptsB |-> accB, info |-> info, security |-> sec,
     host |-> host, tags |-> tags, paths |-> paths, components |-> comps,
     schemas |-> schemas, properties |-> EmptyMap, consumes |-> <<>>,
     required |-> EmptyMap, examples |-> EmptyMap]

MinimalPaths ==
    Some(<<Str_pathB, GET>> :> Operation(<<>>, Some(Str_200 :> Response(<<>>, {}))))

\* documents that differ in their operations
PathDocs ==
    {Document(Str_20, <<>>, TRUE, TRUE, Some(Info(Str_title, Str_2)), EmptyMap, <<>>, <<>>,
              p, TRUE, {}) : p \in PathMaps(SlotsA)}
        \cup
    {Document(<<>>, Str_31, TRUE, TRUE, Some(Info(Str_title, Str_2)), EmptyMap, <<>>, <<>>,
              p, TRUE, {}) : p \in PathMaps(SlotsB)}

\* documents in which a tag has the name of the bucket of the untagged
\* operations
BucketNameDocs ==
    {Document(m[1], m[2], TRUE, TRUE, Some(Info(Str_title, Str_2)), EmptyMap, <<>>, <<>>,
              Some((<<Str_pathAB, GET>> :> Operation(t1, Some(Str_200 :> Response(<<>>, {}))))
                     @@ (<<Str_pathB, GET>> :> Operation(t2, Some(Str_200 :> Response(<<>>, {}))))),
              TRUE, {}) :
        m \in {<<Str_20, <<>>>>, <<<<>>, Str_31>>},
        t1 \in {<<Str_Untagged>>, <<Str_Untagged, Str_a>>, <<Str_b, Str_Untagged>>},
        t2 \in {<<>>, <<Str_Untagged>>, <<Str_a>>}}

\* documents that differ in their top-level sections
SectionDocs ==
    {Document(m[1], m[2], TRUE, TRUE, i, EmptyMap, h, t, p, c, d) :
        m \in {<<Str_20, <<>>>>, <<<<>>, Str_31>>},
        i \in {Nil, Some(Info(Str_title, <<>>))},
        h \in {<<>>, Str_host},
        t \in {<<>>, <<Str_b, Str_a>>},
        p \in {Some(EmptyMap), MinimalPaths},
        c \in BOOLEAN,
        d \in {{}, {Str_b, Str_a}}}
        \cup
    {Document(m[1], m[2], TRUE, TRUE, i, s, <<>>, <<>>, p, TRUE, {}) :
        m \in {<<Str_20, <<>>>>, <<<<>>, Str_31>>},
        i \in {Nil, Some(Info(Str_title, <<>>))},
        s \in SecurityMaps,
        p \in {Some(EmptyMap), MinimalPaths}}

\* documents that differ in what the dispatcher sees
ProbeValues == {<<>>, Str_2, Str_20, Str_3, Str_3dot, Str_31}
ProbeDocs ==
    {Document(sw, oa, accA, accB, Nil, EmptyMap, <<>>, <<>>, p, c, {}) :
        sw \in ProbeValues, oa \in ProbeValues, accA \in BOOLEAN, accB \in BOOLEAN,
        p \in {Nil, MinimalPaths}, c \in BOOLEAN}

\* inputs that differ in their syntax
SyntaxDocs ==
    {[Document(sw, <<>>, TRUE, TRUE, Nil, EmptyMap, <<>>, <<>>, MinimalPaths, TRUE, {})
        EXCEPT !.syntax = sy, !.top = tp] :
        sw \in {Str_20, NotAString}, sy \in {"json", "yaml", "yamlkeys", "garbage"},
        tp \in {"object", "other"}}

\* the schema nodes that refer to, or are built from, the definition ref
SchemaNodes(ref) ==
    {SchemaNode(r, t, i, f) :
        r \in {<<>>, ref},
        t \in {<<>>, <<Str_array>>, <<Str_string>>, <<Str_array, Str_string>>},
        i \in {Nil, Some(Item(ref, <<>>)), Some(Item(ref, <<Str_string>>)),
               Some(Item(<<>>, <<Str_string>>)), Some(Item(<<>>, <<Str_string, Str_integer>>)),
               Some(Item(<<>>, <<>>))},
        f \in {<<>>, Str_int32}}

\* a document with one operation at GET /b
OneOperation(sw, oa, op) ==
    Document(sw, oa, TRUE, TRUE, Some(Info(Str_title, Str_2)), EmptyMap, <<>>, <<>>,
             Some(<<Str_pathB, GET>> :> op), TRUE, {})

\* documents that hold one schema node in every place a schema can stand
SummaryDocs ==
    {[OneOperation(Str_20, <<>>,
        FullOperation(<<>>,
            Some((Str_200 :> FullResponse(Str_ok, Some(n), {}, TRUE, {}))
                   @@ (Str_default :> FullResponse(Str_ok, Some(n), {}, TRUE, {}))),
            <<>>, <<Parameter(Str_id, Str_body, <<>>, Some(n), NoExamples)>>, <<>>, Nil))
        EXCEPT !.schemas = {Str_Pet}, !.properties = (Str_Pet :> (Str_id :> n))] :
        n \in SchemaNodes(Ref_PetA)}
        \cup
    {[OneOperation(<<>>, Str_31,
        FullOperation(<<>>,
            Some(Str_200 :> FullResponse(Str_ok, Some(n), {Str_appjson}, FALSE, {})),
            <<>>, <<Parameter(Str_id, Str_query, <<>>, Some(n), NoExamples)>>, <<>>,
            Some(RequestBody({Str_appjson}, Some(n), FALSE, {}))))
        EXCEPT !.schemas = {Str_Pet}, !.properties = (Str_Pet :> (Str_id :> n))] :
        n \in SchemaNodes(Ref_PetB)}

StringSchema == SchemaNode(<<>>, <<Str_string>>, Nil, <<>>)
DialectMarkers == {<<Str_20, <<>>>>, <<<<>>, Str_31>>}

\* documents that differ in the description of a response
DescriptionDocs ==
    {OneOperation(m[1], m[2],
        Operation(<<>>, Some(key :> FullResponse(desc, sch, {}, TRUE, {})))) :
        m \in DialectMarkers,
        key \in {Str_200, Str_default},
        desc \in {<<>>, Str_blank, Str_ok, Str_okPadded},
        sch \in {Nil, Some(StringSchema)}}

MediaTypeSets == {{}, {Str_appjson}, {Str_appjson, Str_appxml}}
ExampleNameSets == {{}, {Str_alt}, {Str_alt, Str_a}}

\* documents that differ in the examples of a response
ExampleDocs ==
    {OneOperation(Str_20, <<>>,
        Operation(<<>>, Some(key :> FullResponse(Str_ok, Nil, mts, TRUE, {})))) :
        key \in {Str_200, Str_default}, mts \in MediaTypeSets}
        \cup
    {OneOperation(<<>>, Str_31,
        Operation(<<>>, Some(key :> ExternalResponse(Str_ok, Nil, mts, anon, named, external)))) :
        key \in {Str_200, Str_default}, mts \in MediaTypeSets,
        anon \in BOOLEAN, named \in ExampleNameSets, external \in {{}, {Str_b}}}

OkResponses == Some(Str_200 :> FullResponse(Str_ok, Nil, {}, TRUE, {}))

\* the example values of a schema: every choice of the places that hold one
BodyExamples ==
    {ExampleSources(st, it, ve) :
        st \in {Nil, Some(StringValue(Str_a))},
        it \in {Nil, Some(StringValue(Str_b))},
        ve \in {Nil, Some(NumberValue(3))}}

\* documents that differ in the example values of a schema definition
SchemaExampleDocs ==
    {[Document(m[1], m[2], TRUE, TRUE, Some(Info(Str_title, Str_2)), EmptyMap, <<>>, <<>>,
               MinimalPaths, TRUE, {Str_Pet, Str_a})
        EXCEPT !.examples = (Str_Pet :> ex)] :
        m \in DialectMarkers, ex \in {e \in BodyExamples : e.items = Nil}}

\* documents that differ in the request of an operation
RequestDocs ==
    {[OneOperation(Str_20, <<>>,
        FullOperation(<<>>, OkResponses, <<>>,
            before \o <<Parameter(Str_id, Str_body, <<>>, Some(StringSchema), ex)>>,
            consumes, Nil))
        EXCEPT !.consumes = global] :
        before \in {<<>>, <<Parameter(Str_a, Str_body, <<>>, Nil, NoExamples)>>},
        ex \in BodyExamples,
        consumes \in {<<>>, <<Str_appjson>>, <<Str_appxml, Str_appjson>>},
        global \in {<<>>, <<Str_appxml>>}}
        \cup
    {OneOperation(<<>>, Str_31,
        FullOperation(<<>>, OkResponses, <<>>, <<>>, <<>>, body)) :
        body \in {Nil} \cup {Some(RequestBody(mts, Some(StringSchema), anon, named)) :
                               mts \in MediaTypeSets, anon \in BOOLEAN,
                               named \in ExampleNameSets}}

\* a parameter of the given type, declared the way the dialect declares it
TypedParameter(m, name, in, type) ==
    IF m[1] # <<>> THEN Parameter(name, in, type, Nil, NoExamples)
    ELSE Parameter(name, in, <<>>, Some(SchemaNode(<<>>, <<type>>, Nil, <<>>)), NoExamples)

\* documents that differ in their path-level and operation-level parameters
ParameterDocs ==
    {OneOperation(m[1], m[2],
        FullOperation(<<>>, OkResponses,
            [i \in 1..Len(pi) |-> TypedParameter(m, Str_id, pi[i], Str_string)],
            [i \in 1..Len(own) |-> TypedParameter(m, Str_id, own[i], Str_integer)],
            <<>>, Nil)) :
        m \in DialectMarkers,
        pi \in {<<>>, <<Str_path>>, <<Str_query>>},
        own \in {<<>>, <<Str_path>>, <<Str_path, Str_query>>}}

\* documents rendered with validation: with and without an info block,
\* with and without security schemes
ValidationDocs ==
    {Document(m[1], m[2], TRUE, TRUE, i, sec, <<>>, <<>>, MinimalPaths, TRUE, {}) :
        m \in DialectMarkers,
        i \in {Nil, Some(Info(Str_title, Str_2))},
        sec \in {EmptyMap, (Str_a :> TRUE) @@ (Str_b :> TRUE)}}

\* documents that differ in the properties of a schema definition
PropertyDefaults ==
    {Nil, Some(StringValue(Str_a)), Some(StringValue(<<>>)), Some(NumberValue(20))}
PropertyEnums ==
    {<<>>, <<StringValue(Str_b), StringValue(Str_a)>>, <<StringValue(<<>>)>>,
     <<NumberValue(20), NumberValue(3)>>}
PropertyDocs ==
    {[Document(m[1], m[2], TRUE, TRUE, Some(Info(Str_title, Str_2)), EmptyMap, <<>>, <<>>,
               MinimalPaths, TRUE, {Str_Pet})
        EXCEPT !.properties =
                   (Str_Pet :>
                      ((Str_id :> AnnotatedNode(<<>>, <<Str_string>>, Nil, <<>>, def, enum))
                        @@ (Str_a :> AnnotatedNode(<<>>, <<Str_integer>>, Nil, <<>>,
                                                   Some(NumberValue(3)), <<>>)))),
               !.required = (Str_Pet :> req)] :
        m \in DialectMarkers, def \in PropertyDefaults, enum \in PropertyEnums,
        req \in {<<>>, <<Str_id>>, <<Str_b, Str_a>>}}

\* a reference to the definition name, as the dialect writes it
RefTo(m, name) ==
    IF m[1] # <<>> THEN SubSeq(Ref_PetA, 1, Len(Ref_PetA) - Len(Str_Pet)) \o name
    ELSE SubSeq(Ref_PetB, 1, Len(Ref_PetB) - Len(Str_Pet)) \o name

\* schema nodes that close a cycle through the definitions Pet and a
CyclicNodes(m) ==
    {SchemaNode(RefTo(m, Str_Pet), <<>>, Nil, <<>>),
     SchemaNode(RefTo(m, Str_a), <<>>, Nil, <<>>),
     SchemaNode(<<>>, <<Str_array>>, Some(Item(RefTo(m, Str_Pet), <<>>)), <<>>)}

\* arrays of arrays
NestedNodes(m) ==
    {SchemaNode(<<>>, <<Str_array>>, Some(NestedItem(<<>>, <<Str_array>>, inner)), <<>>) :
        inner \in {Some(Item(<<>>, <<Str_string>>)),
                   Some(NestedItem(<<>>, <<Str_array>>, Some(Item(<<>>, <<Str_string>>)))),
                   Some(NestedItem(<<>>, <<Str_array>>, Some(Item(RefTo(m, Str_Pet), <<>>))))}}

\* documents whose definitions refer to themselves and to each other and
\* nest arrays
GraphDocs ==
    UNION {{[OneOperation(m[1], m[2],
        Operation(<<>>,
            Some((Str_200 :> FullResponse(Str_ok, Some(cyclic), {Str_appjson}, FALSE, {}))
                   @@ (Str_404 :> FullResponse(Str_ok, Some(nested), {Str_appjson}, FALSE, {})))))
        EXCEPT !.schemas = {Str_Pet, Str_a},
               !.properties =
                   (Str_Pet :> ((Str_id :> cyclic) @@ (Str_a :> nested)))
                     @@ (Str_a :> (Str_id :> SchemaNode(RefTo(m, Str_Pet), <<>>, Nil, <<>>)))] :
        cyclic \in CyclicNodes(m), nested \in NestedNodes(m)} : m \in DialectMarkers}

\* documents that differ in the keys under which an operation declares its
\* responses
ResponseKeys == {Str_200, Str_404, Str_99, Str_default}
ResponseKeyDocs ==
    {OneOperation(m[1], m[2],
        Operation(<<Str_a>>, Some([key \in keys |-> FullResponse(Str_ok, Nil, {}, TRUE, {})]))) :
        m \in DialectMarkers,
        keys \in {K \in SUBSET ResponseKeys : Cardinality(K) \in 2..3}}

OperationDocs ==
    DescriptionDocs \cup ExampleDocs \cup RequestDocs \cup ParameterDocs
        \cup ResponseKeyDocs \cup PropertyDocs \cup SchemaExampleDocs \cup GraphDocs

Documents ==
    PathDocs \cup SectionDocs \cup ProbeDocs \cup SyntaxDocs \cup SummaryDocs
        \cup ValidationDocs \cup OperationDocs

FormatAuto == "auto"
FormatJSON == "json"
FormatYAML == "yaml"
Options(format, skip) == [Format |-> format, SkipValidation |-> skip]

(***************************************************************************)
(* Helpers shared by the two adapters.                                     *)
(***************************************************************************)
Str_dash == <<45>>
Str_NoDescription == <<78, 111, 32, 100, 101, 115, 99, 114, 105, 112, 116, 105, 111, 110>>
Str_http == <<104, 116, 116, 112>>
Str_colonSlashSlash == <<58, 47, 47>>

RECURSIVE FlatMap(_, _)
FlatMap(F(_), s) == IF s = <<>> THEN <<>> ELSE F(Head(s)) \o FlatMap(F, Tail(s))

Range(s) == {s[i] : i \in DOMAIN s}

\* strings.TrimSpace for strings whose only white space is the blank
RECURSIVE TrimSpace(_)
TrimSpace(s) ==
    IF s = <<>> THEN s
    ELSE IF Head(s) = 32 THEN TrimSpace(Tail(s))
    ELSE IF s[Len(s)] = 32 THEN TrimSpace(SubSeq(s, 1, Len(s) - 1))
    ELSE s

hostURL(schemes, host, basePath) ==
    LET sch == IF Len(schemes) > 0 THEN schemes[1] ELSE Str_http
    IN  IF host = <<>> THEN <<>>
        ELSE IF basePath = <<>> THEN sch \o Str_colonSlashSlash \o host
        ELSE sch \o Str_colonSlashSlash \o host \o basePath

Str_comma == <<44>>
Str_brackets == <<91, 93>>
Str_arrayOpen == <<97, 114, 114, 97, 121, 60>>
Str_arrayClose == <<62>>
Str_refMarker == <<36, 114, 101, 102, 58>>
Str_formatOpen == <<32, 40>>
Str_formatClose == <<41>>
Str_required == <<32, 40, 114, 101, 113, 117, 105, 114, 101, 100, 41>>

Str_commaSpace == <<44, 32>>
Str_defaultOpen == <<32, 91, 100, 101, 102, 97, 117, 108, 116, 58, 32>>   \* " [default: "
Str_enumOpen == <<32, 91, 101, 110, 117, 109, 58, 32>>                    \* " [enum: "
Str_annotationClose == <<93>>                                             \* "]"

\* fmt.Sprintf("%v", v) of a string or of a number without fraction
Sprintv(v) == IF v.t = "string" THEN v.s ELSE Itoa(v.n)

contains(list, v) == \E i \in 1..Len(list) : list[i] = v

defaultAsString(v) == IF v = Nil THEN <<>> ELSE Sprintv(Val(v))

RECURSIVE enumAsString(_)
enumAsString(list) ==
    IF Len(list) = 0 THEN <<>>
    ELSE IF Len(list) = 1 THEN Sprintv(list[1])
    ELSE enumAsString(SubSeq(list, 1, Len(list) - 1)) \o Str_commaSpace
            \o Sprintv(list[Len(list)])

\* line += fmt.Sprintf(" [default: %s]", def) and " [enum: %s]", each only
\* for a text that is not empty
DefaultAnnotation(def) ==
    IF def # <<>> THEN Str_defaultOpen \o def \o Str_annotationClose ELSE <<>>
EnumAnnotation(enum) ==
    IF enum # <<>> THEN Str_enumOpen \o enum \o Str_annotationClose ELSE <<>>

nonEmpty(str, fallback) == IF str = <<>> THEN fallback ELSE str

\* strings.Join(list, ",")
RECURSIVE Join(_)
Join(list) ==
    IF list = <<>> THEN <<>>
    ELSE IF Len(list) = 1 THEN list[1]
    ELSE list[1] \o Str_comma \o Join(Tail(list))

\* strings.LastIndex(str, "/") + 1: the position of the last "/", 0 if none
LastSlash(str) ==
    IF \E i \in 1..Len(str) : str[i] = 47
    THEN CHOOSE i \in 1..Len(str) : str[i] = 47 /\ \A j \in (i + 1)..Len(str) : str[j] # 47
    ELSE 0

refName(ref) ==
    IF ref = <<>> THEN <<>>
    ELSE IF LastSlash(ref) >= 1 /\ LastSlash(ref) < Len(ref)
    THEN SubSeq(ref, LastSlash(ref) + 1, Len(ref))
    ELSE ref

schemaSummaryTypeFirst(sch) ==
    IF sch = Nil THEN <<>>
    ELSE LET n == Val(sch)
         IN  IF Len(n.type) = 1 /\ n.type[1] = Str_array /\ n.items # Nil
             THEN LET it == Val(n.items)
                  IN  IF it.ref # <<>> /\ refName(it.ref) # <<>>
                      THEN refName(it.ref) \o Str_brackets
                      ELSE IF Len(it.type) > 0
                      THEN Str_arrayOpen \o Join(it.type) \o Str_arrayClose
                      ELSE Str_array
             ELSE IF Len(n.type) > 0
             THEN IF n.format # <<>>
                  THEN Join(n.type) \o Str_formatOpen \o n.format \o Str_formatClose
                  ELSE Join(n.type)
             ELSE IF n.ref # <<>> /\ refName(n.ref) # <<>> THEN refName(n.ref)
             ELSE <<>>

\* schemaSummarySwagger2(s) for a *spec.Schema that is Nil or Some(node)
schemaSummarySwagger2(sch) ==
    IF sch = Nil THEN <<>>
    ELSE LET n == Val(sch)
         IN  IF n.ref # <<>> /\ refName(n.ref) # <<>> THEN refName(n.ref)
             ELSE IF Len(n.type) = 1 /\ n.type[1] = Str_array /\ n.items # Nil
             THEN LET it == Val(n.items)
                  IN  IF it.ref # <<>> /\ refName(it.ref) # <<>>
                      THEN refName(it.ref) \o Str_brackets
                      ELSE IF Len(it.type) > 0
                      THEN Str_arrayOpen \o Join(it.type) \o Str_arrayClose
                      ELSE Str_array
             ELSE IF Len(n.type) > 0
             THEN IF n.format # <<>>
                  THEN Join(n.type) \o Str_formatOpen \o n.format \o Str_formatClose
                  ELSE Join(n.type)
             ELSE <<>>

typeOfSchemaRefNoArray(ref) ==
    IF ref = Nil THEN Str_dash
    ELSE LET n == Val(ref)
         IN  IF n.ref # <<>> THEN Str_refMarker \o refName(n.ref)
             ELSE IF Len(n.type) > 0 THEN Join(n.type)
             ELSE Str_object

RECURSIVE nestedItemType(_)
nestedItemType(it) ==
    IF Len(it.type) = 1 /\ it.type[1] = Str_array /\ it.items # Nil
    THEN Str_arrayOpen \o nestedItemType(Val(it.items)) \o Str_arrayClose
    ELSE IF it.ref # <<>> THEN refName(it.ref)
    ELSE Join(it.type)

typeOfSchemaRefNested(ref) ==
    IF ref = Nil THEN Str_dash
    ELSE LET n == Val(ref)
         IN  IF n.ref # <<>>
             THEN IF LastSlash(n.ref) >= 1 /\ LastSlash(n.ref) < Len(n.ref)
                  THEN Str_refMarker \o SubSeq(n.ref, LastSlash(n.ref) + 1, Len(n.ref))
                  ELSE Str_refMarker \o n.ref
             ELSE IF Len(n.type) = 1 /\ n.type[1] = Str_array /\ n.items # Nil
             THEN LET it == Val(n.items)
                  IN  IF it.ref # <<>> /\ refName(it.ref) # <<>>
                      THEN refName(it.ref) \o Str_brackets
                      ELSE IF Len(it.type) > 0
                      THEN Str_arrayOpen \o nestedItemType(it) \o Str_arrayClose
                      ELSE Str_array
             ELSE IF Len(n.type) > 0 THEN Join(n.type)
             ELSE Str_object

\* typeOfSchemaRef(ref) for a *openapi3.SchemaRef that is Nil or Some(node)
typeOfSchemaRef(ref) ==
    IF ref = Nil THEN Str_dash
    ELSE LET n == Val(ref)
         IN  IF n.ref # <<>>
             THEN IF LastSlash(n.ref) >= 1 /\ LastSlash(n.ref) < Len(n.ref)
                  THEN Str_refMarker \o SubSeq(n.ref, LastSlash(n.ref) + 1, Len(n.ref))
                  ELSE Str_refMarker \o n.ref
             ELSE IF Len(n.type) = 1 /\ n.type[1] = Str_array /\ n.items # Nil
             THEN LET it == Val(n.items)
                  IN  IF it.ref # <<>> /\ refName(it.ref) # <<>>
                      THEN refName(it.ref) \o Str_brackets
                      ELSE IF Len(it.type) > 0
                      THEN Str_arrayOpen \o Join(it.type) \o Str_arrayClose
                      ELSE Str_array
             ELSE IF Len(n.type) > 0 THEN Join(n.type)
             ELSE Str_object

\* writeExampleFence(b, label, mt, value): the label, then the fenced value
writeExampleFence(label, mt, value) ==
    <<Blank, label, Line("fence %s", <<mt>>), Line("%v", <<value>>), Line("end fence", <<>>)>>

MethodsA == <<GET, POST, PUT, DELETE, PATCH, OPTIONS, HEAD>>
MethodsB == <<GET, POST, PUT, DELETE, PATCH, OPTIONS, HEAD, TRACE>>

opRef(method, path, op) == [Method |-> method, Path |-> path, Op |-> op]

\* the inner loop over one path item: its non-nil operations in method order
RefsOfPath(pm, p, methods) ==
    LET present == SelectSeq(methods, LAMBDA m : <<p, m>> \in DOMAIN pm)
    IN  [i \in 1..Len(present) |-> opRef(present[i], p, pm[<<p, present[i]>>])]

PathKeys(pm) == {s[1] : s \in DOMAIN pm}

\* the operations of the document in the order the walk over the sorted
\* paths visits them
AllRefs(pm, methods) ==
    FlatMap(LAMBDA p : RefsOfPath(pm, p, methods), SortStrings(PathKeys(pm)))

\* untagged = append(untagged, ref) for every operation without tags
UntaggedRefs(refs) == SelectSeq(refs, LAMBDA r : Len(r.Op.tags) = 0)

\* tagged[tag] = append(tagged[tag], ref), once per entry of the tag list
TaggedRefs(refs, tag) ==
    FlatMap(LAMBDA r : LET hits == SelectSeq(r.Op.tags, LAMBDA t : t = tag)
                       IN  [i \in 1..Len(hits) |-> r], refs)

\* the keys of the tagged map
TaggedKeys(refs) == UNION {Range(refs[i].Op.tags) : i \in DOMAIN refs}

(***************************************************************************)
(* Dialect A: swagger2ToMarkdown, section by section.                      *)
(***************************************************************************)
\* op.Responses.StatusCodeResponses: the responses under numeric keys
StatusCodeResponses(responses) ==
    LET keys == {k \in DOMAIN responses : IsDigits(k)}
    IN  [c \in {Atoi(k) : k \in keys} |->
            responses[CHOOSE k \in keys : Atoi(k) = c]]

\* op.Responses.Default
DefaultResponse(responses) ==
    IF Str_default \in DOMAIN responses THEN Some(responses[Str_default]) ELSE Nil

\* the parameter lines of an operation (the documents of the model give
\* parameters no description, default or enum)
S2ParameterLine(prm) ==
    LET typ == IF prm.type = <<>> /\ prm.schema # Nil /\ Len(Val(prm.schema).type) > 0
               THEN Join(Val(prm.schema).type)
               ELSE prm.type
        req == IF prm.required THEN Str_required ELSE <<>>
    IN  Line("- %s '%s' (%s)%s", <<prm.in, prm.name, nonEmpty(typ, Str_dash), req>>)

\* the first body parameter that has a schema, Nil if there is none
bodySchema(parameters) ==
    LET bodies == SelectSeq(parameters, LAMBDA prm : prm.in = Str_body /\ prm.schema # Nil)
    IN  IF bodies = <<>> THEN Nil ELSE Some(bodies[1])

bodyExampleVendorFirst(sources) ==
    IF sources.vendor # Nil THEN sources.vendor
    ELSE IF sources.standard # Nil THEN sources.standard
    ELSE sources.items

\* ex: the example of the body schema, else that of its item schema, else
\* the "x-example" extension
bodyExample(sources) ==
    IF sources.standard # Nil THEN sources.standard
    ELSE IF sources.items # Nil THEN sources.items
    ELSE sources.vendor

\* the request examples of an operation: one per consumed media type
S2RequestExamples(parameters, consumes) ==
    LET body == bodySchema(parameters)
        ex == bodyExample(Val(body).example)
    IN  IF body # Nil /\ ex # Nil
        THEN IF Len(consumes) > 0
             THEN FlatMap(LAMBDA mt : writeExampleFence(
                              Line("Request example (%s)", <<mt>>), mt, Val(ex)), consumes)
             ELSE writeExampleFence(Line("Request example", <<>>), <<>>, Val(ex))
        ELSE <<>>

S2ResponseLineRawDescription(code, r) ==
    LET desc == TrimSpace(r.desc)
        summary == schemaSummarySwagger2(r.schema)
    IN  <<IF r.schema # Nil /\ summary # <<>>
          THEN Line("- %d - %s (schema: %s)", <<Itoa(code), desc, summary>>)
          ELSE Line("- %d - %s", <<Itoa(code), desc>>)>>
            \o FlatMap(LAMBDA mt : writeExampleFence(
                           Line("Response example (%d, %s)", <<Itoa(code), mt>>), mt,
                           SampleValue),
                       SortStrings(r.examples))

S2ResponseLine(code, r) ==
    LET desc == IF TrimSpace(r.desc) = <<>> THEN Str_NoDescription ELSE TrimSpace(r.desc)
        summary == schemaSummarySwagger2(r.schema)
    IN  <<IF r.schema # Nil /\ summary # <<>>
          THEN Line("- %d - %s (schema: %s)", <<Itoa(code), desc, summary>>)
          ELSE Line("- %d - %s", <<Itoa(code), desc>>)>>
            \o FlatMap(LAMBDA mt : writeExampleFence(
                           Line("Response example (%d, %s)", <<Itoa(code), mt>>), mt,
                           SampleValue),
                       SortStrings(r.examples))

S2DefaultLine(r) ==
    LET desc == IF TrimSpace(r.desc) = <<>> THEN Str_NoDescription ELSE TrimSpace(r.desc)
        summary == schemaSummarySwagger2(r.schema)
    IN  <<IF r.schema # Nil /\ summary # <<>>
          THEN Line("- default - %s (schema: %s)", <<desc, summary>>)
          ELSE Line("- default - %s", <<desc>>)>>

\* the documents of the model give operations no summary, description,
\* operation id or produced media types
writeSwagger2Operation(method, path, op, globalConsumes) ==
    LET consumes == IF Len(op.consumes) = 0 THEN globalConsumes ELSE op.consumes
    IN  <<Blank, H4(method, path)>> \o
        (IF Len(consumes) > 0
         THEN <<Line("**Consumes**", <<>>)>>
                \o [i \in 1..Len(consumes) |-> Line("- %s", <<consumes[i]>>)]
                \o <<Blank>>
         ELSE <<>>) \o
        (IF Len(op.parameters) > 0
         THEN <<Line("**Parameters**", <<>>)>>
                \o [i \in 1..Len(op.parameters) |-> S2ParameterLine(op.parameters[i])]
         ELSE <<>>) \o
        S2RequestExamples(op.parameters, consumes) \o
        (IF op.responses # Nil
            /\ (DOMAIN StatusCodeResponses(Val(op.responses)) # {}
                \/ DefaultResponse(Val(op.responses)) # Nil)
         THEN LET scr == StatusCodeResponses(Val(op.responses))
                  def == DefaultResponse(Val(op.responses))
              IN  <<Blank, Line("**Responses**", <<>>)>>
                    \o FlatMap(LAMBDA code : S2ResponseLine(code, scr[code]),
                               SortInts(DOMAIN scr))
                    \o (IF def # Nil THEN S2DefaultLine(Val(def)) ELSE <<>>)
         ELSE <<>>)

S2Overview(d) ==
    LET title == IF d.info # Nil /\ Val(d.info).title # <<>>
                 THEN Val(d.info).title ELSE Str_dash
        version == IF d.info # Nil /\ Val(d.info).version # <<>>
                   THEN Val(d.info).version ELSE Str_dash
    IN  <<H1(title), Blank, H2("## Overview"), Line("- Version: %s", <<version>>)>>

\* order: the order in which range visits s.SecurityDefinitions
S2Authentication(d, order) ==
    <<Blank, H2("## Authentication")>> \o
    (IF Cardinality(DOMAIN d.security) = 0 THEN <<NoneDefined>>
     ELSE [i \in 1..Len(order) |-> Line("- %s - type=%s", <<order[i], <<>>>>)])

S2Servers(d) ==
    LET hostLine == hostURL(<<>>, d.host, <<>>)
    IN  <<Blank, H2("## Servers")>> \o
        (IF hostLine # <<>> THEN <<Line("- %s", <<hostLine>>)>> ELSE <<NoneDefined>>)

S2Tags(d) ==
    <<Blank, H2("## Tags")>> \o
    (IF Len(d.tags) = 0 THEN <<NoneDefined>>
     ELSE [i \in 1..Len(d.tags) |-> Line("- %s", <<d.tags[i]>>)])

\* defined when s.Paths is not nil
S2Endpoints(d) ==
    LET refs == AllRefs(Val(d.paths), MethodsA)
        untagged == UntaggedRefs(refs)
        write(ref) == writeSwagger2Operation(ref.Method, ref.Path, ref.Op, d.consumes)
    IN  <<Blank, H2("## Endpoints by Tag")>>
          \o FlatMap(LAMBDA name : <<Blank, H3(name)>>
                                     \o FlatMap(write, TaggedRefs(refs, name)),
                     SortStrings(TaggedKeys(refs)))
          \o (IF Len(untagged) > 0
              THEN <<Blank, H3(Str_Untagged)>> \o FlatMap(write, untagged)
              ELSE <<>>)

\* sch.Properties and sch.Required of the definition name (the documents
\* of the model give definitions and properties no description)
PropertiesOf(d, name) ==
    IF name \in DOMAIN d.properties THEN d.properties[name] ELSE EmptyMap
RequiredOf(d, name) ==
    IF name \in DOMAIN d.required THEN d.required[name] ELSE <<>>

\* the property line: the marker, then the default, then the enum
PropertyLine(pn, typ, req, def, enum) ==
    Line("- '%s' (%s)%s%s%s", <<pn, typ, req, DefaultAnnotation(def), EnumAnnotation(enum)>>)

S2PropertyLines(props, required) ==
    IF Cardinality(DOMAIN props) > 0
    THEN <<Line("**Properties**", <<>>)>>
           \o FlatMap(LAMBDA pn :
                          <<PropertyLine(pn,
                                nonEmpty(schemaSummarySwagger2(Some(props[pn])), Str_dash),
                                IF contains(required, pn) THEN Str_required ELSE <<>>,
                                defaultAsString(props[pn].default),
                                enumAsString(props[pn].enum))>>,
                      SortStrings(DOMAIN props))
    ELSE <<>>

ExamplesOf(d, name) ==
    IF name \in DOMAIN d.examples THEN d.examples[name] ELSE NoExamples

Str_applicationJSON == <<97, 112, 112, 108, 105, 99, 97, 116, 105, 111, 110, 47, 106, 115, 111, 110>>

\* the example of a definition: sch.Example, else the "x-example" extension
S2SchemaExample(sources) ==
    IF sources.standard # Nil
    THEN writeExampleFence(Line("Example", <<>>), Str_applicationJSON, Val(sources.standard))
    ELSE IF sources.vendor # Nil
    THEN writeExampleFence(Line("Example", <<>>), Str_applicationJSON, Val(sources.vendor))
    ELSE <<>>

S2Schemas(d) ==
    IF Cardinality(d.schemas) > 0
    THEN <<Blank, H2("## Schemas")>>
           \o FlatMap(LAMBDA name : <<Blank, H3(name)>>
                                      \o S2PropertyLines(PropertiesOf(d, name),
                                                         RequiredOf(d, name))
                                      \o S2SchemaExample(ExamplesOf(d, name)),
                      SortStrings(d.schemas))
    ELSE <<>>

\* the index lines of one operation; order: the order in which range visits
\* op.Responses.StatusCodeResponses
S2ExampleIndex(ref, order) ==
    LET scr == StatusCodeResponses(Val(ref.Op.responses))
    IN  FlatMap(LAMBDA code :
                    IF Cardinality(scr[code].examples) > 0
                    THEN <<Line("- %s %s %d - has inline examples",
                                <<ref.Method, ref.Path, Itoa(code)>>)>>
                    ELSE <<>>,
                order)

\* orders[i]: the visiting order for the i-th operation of the walk
S2Examples(d, orders) ==
    LET refs == AllRefs(Val(d.paths), MethodsA)
    IN  <<Blank, H2("## Examples")>>
          \o FlatMap(LAMBDA i : IF refs[i].Op.responses = Nil THEN <<>>
                                ELSE S2ExampleIndex(refs[i], orders[i]),
                     [i \in 1..Len(refs) |-> i])

\* the visiting orders the range loops of the Examples section may take
S2IndexOrders(d) ==
    LET refs == AllRefs(Val(d.paths), MethodsA)
        keys(i) == IF refs[i].Op.responses = Nil THEN {}
                   ELSE DOMAIN StatusCodeResponses(Val(refs[i].Op.responses))
    IN  {o \in [1..Len(refs) -> UNION {Perms(keys(i)) : i \in 1..Len(refs)}] :
            \A i \in 1..Len(refs) : o[i] \in Perms(keys(i))}

(***************************************************************************)
(* Dialect B: openAPI3ToMarkdown, section by section.                      *)
(***************************************************************************)
\* the examples of one content entry: the inline example, then the named
\* examples in the order of their names; named holds the names that pass
\* "exRef != nil && exRef.Value != nil && exRef.Value.Value != nil"
O3MediaExamples(anonLabel, namedLabel, mt, anon, named) ==
    (IF anon THEN writeExampleFence(anonLabel, mt, SampleValue) ELSE <<>>)
        \o FlatMap(LAMBDA name : writeExampleFence(namedLabel[name], mt, SampleValue),
                   SortStrings(named))

O3ParameterLine(par) ==
    LET typ == IF par.schema # Nil THEN typeOfSchemaRef(par.schema) ELSE Str_dash
        req == IF par.required THEN Str_required ELSE <<>>
    IN  Line("- %s '%s' (%s)%s", <<par.in, par.name, typ, req>>)

O3RequestBody(body) ==
    IF body # Nil /\ Cardinality(Val(body).content) > 0
    THEN LET rb == Val(body)
             typ == IF rb.schema # Nil THEN typeOfSchemaRef(rb.schema) ELSE Str_dash
         IN  <<Blank, Line("**Request Body**", <<>>)>>
               \o FlatMap(LAMBDA mt :
                              <<Line("- %s - schema: %s", <<mt, typ>>)>>
                                \o O3MediaExamples(
                                     Line("Request example (%s)", <<mt>>),
                                     [name \in rb.named |-> Line("Request example (%s, %s)", <<name, mt>>)],
                                     mt, rb.anon, rb.named),
                          SortStrings(rb.content))
    ELSE <<>>

O3ResponseLinesSwappedLabel(code, r) ==
    LET desc == IF TrimSpace(r.desc) = <<>> THEN Str_NoDescription ELSE TrimSpace(r.desc)
        typ == IF r.schema # Nil THEN typeOfSchemaRef(r.schema) ELSE Str_dash
    IN  <<Line("- %s - %s", <<code, desc>>)>>
            \o FlatMap(LAMBDA mt :
                           <<Line("  - %s - schema: %s", <<mt, typ>>)>>
                             \o O3MediaExamples(
                                  Line("Response example (%s, %s)", <<code, mt>>),
                                  [name \in r.named |-> Line("Response example (%s, %s, %s)",
                                                         <<code, name, mt>>)],
                                  mt, r.anon, r.named),
                       SortStrings(r.examples))

O3ResponseLines(code, r) ==
    LET desc == IF TrimSpace(r.desc) = <<>> THEN Str_NoDescription ELSE TrimSpace(r.desc)
        typ == IF r.schema # Nil THEN typeOfSchemaRef(r.schema) ELSE Str_dash
    IN  <<Line("- %s - %s", <<code, desc>>)>>
            \o FlatMap(LAMBDA mt :
                           <<Line("  - %s - schema: %s", <<mt, typ>>)>>
                             \o O3MediaExamples(
                                  Line("Response example (%s, %s)", <<code, mt>>),
                                  [name \in r.named |-> Line("Response example (%s, %s, %s)",
                                                         <<name, code, mt>>)],
                                  mt, r.anon, r.named),
                       SortStrings(r.examples))

writeOpenAPI3OperationResponsesHeading(method, path, op) ==
    LET params == op.piParameters \o op.parameters
    IN  <<Blank, H4(method, path)>> \o
        (IF Len(params) > 0
         THEN <<Line("**Parameters**", <<>>)>>
                \o [i \in 1..Len(params) |-> O3ParameterLine(params[i])]
         ELSE <<>>) \o
        O3RequestBody(op.requestBody) \o
        (IF op.responses # Nil
         THEN LET respMap == Val(op.responses)
              IN  <<Blank, Line("**Responses**", <<>>)>>
                    \o FlatMap(LAMBDA code : O3ResponseLines(code, respMap[code]),
                               SortStrings(DOMAIN respMap))
         ELSE <<>>)

\* the documents of the model give operations no summary or description;
\* pi.Parameters is op.piParameters; every entry of the parameters and of
\* the responses is a resolved one, as the loader returns them
writeOpenAPI3Operation(method, path, op) ==
    LET params == op.piParameters \o op.parameters
    IN  <<Blank, H4(method, path)>> \o
        (IF Len(params) > 0
         THEN <<Line("**Parameters**", <<>>)>>
                \o [i \in 1..Len(params) |-> O3ParameterLine(params[i])]
         ELSE <<>>) \o
        O3RequestBody(op.requestBody) \o
        (IF op.responses # Nil /\ DOMAIN Val(op.responses) # {}
         THEN LET respMap == Val(op.responses)
              IN  <<Blank, Line("**Responses**", <<>>)>>
                    \o FlatMap(LAMBDA code : O3ResponseLines(code, respMap[code]),
                               SortStrings(DOMAIN respMap))
         ELSE <<>>)

O3Overview(d) ==
    LET title == IF d.info # Nil /\ Val(d.info).title # <<>>
                 THEN Val(d.info).title ELSE Str_dash
        version == IF d.info # Nil /\ Val(d.info).version # <<>>
                   THEN Val(d.info).version
                   ELSE IF d.openapi # <<>> THEN d.openapi ELSE Str_dash
    IN  <<H1(title), Blank, H2("## Overview"), Line("- Version: %s", <<version>>)>>

\* defined when doc.Components is not nil
O3Authentication(d) ==
    <<Blank, H2("## Authentication")>> \o
    (IF Cardinality(DOMAIN d.security) = 0 THEN <<NoneDefined>>
     ELSE FlatMap(LAMBDA name : IF d.security[name]
                                THEN <<Line("- %s - type=%s", <<name, <<>>>>)>>
                                ELSE <<>>,
                  SortStrings(DOMAIN d.security)))

O3Servers(d) ==
    <<Blank, H2("## Servers")>> \o
    (IF d.host = <<>> THEN <<NoneDefined>> ELSE <<Line("- %s", <<d.host>>)>>)

O3Tags(d) ==
    <<Blank, H2("## Tags")>> \o
    (IF Len(d.tags) = 0 THEN <<NoneDefined>>
     ELSE [i \in 1..Len(d.tags) |-> Line("- %s", <<d.tags[i]>>)])

O3Endpoints(d) ==
    <<Blank, H2("## Endpoints by Tag")>> \o
    (IF d.paths = Nil THEN <<NoneDefined>>
     ELSE LET refs == AllRefs(Val(d.paths), MethodsB)
              untagged == UntaggedRefs(refs)
              write(ref) == writeOpenAPI3Operation(ref.Method, ref.Path, ref.Op)
          IN  FlatMap(LAMBDA name : <<Blank, H3(name)>>
                                      \o FlatMap(write, TaggedRefs(refs, name)),
                      SortStrings(TaggedKeys(refs)))
                \o (IF Len(untagged) > 0
                    THEN <<Blank, H3(Str_Untagged)>> \o FlatMap(write, untagged)
                    ELSE <<>>))

O3PropertyLines(props, required) ==
    IF Cardinality(DOMAIN props) > 0
    THEN <<Line("**Properties**", <<>>)>>
           \o FlatMap(LAMBDA pn :
                          <<PropertyLine(pn,
                                typeOfSchemaRef(Some(props[pn])),
                                IF contains(required, pn) THEN Str_required ELSE <<>>,
                                defaultAsString(props[pn].default),
                                enumAsString(props[pn].enum))>>,
                      SortStrings(DOMAIN props))
    ELSE <<>>

\* the example of a definition: ref.Value.Example
O3SchemaExample(sources) ==
    IF sources.standard # Nil
    THEN writeExampleFence(Line("Example", <<>>), Str_applicationJSON, Val(sources.standard))
    ELSE <<>>

O3Schemas(d) ==
    IF Cardinality(d.schemas) > 0
    THEN <<Blank, H2("## Schemas")>>
           \o FlatMap(LAMBDA name : <<Blank, H3(name)>>
                                      \o O3PropertyLines(PropertiesOf(d, name),
                                                         RequiredOf(d, name))
                                      \o O3SchemaExample(ExamplesOf(d, name)),
                      SortStrings(d.schemas))
    ELSE <<>>

\* order: the order in which range visits respMap
O3ExampleIndex(ref, order) ==
    LET respMap == Val(ref.Op.responses)
    IN  FlatMap(LAMBDA code :
                    IF Cardinality(respMap[code].examples) > 0
                       /\ (respMap[code].anon
                             \/ Cardinality(respMap[code].named \cup respMap[code].external) > 0)
                    THEN <<Line("- %s %s %s - has inline examples",
                                <<ref.Method, ref.Path, code>>)>>
                    ELSE <<>>,
                order)

O3Examples(d, orders) ==
    <<Blank, H2("## Examples")>> \o
    (IF d.paths = Nil THEN <<NoneDefined>>
     ELSE LET refs == AllRefs(Val(d.paths), MethodsB)
          IN  FlatMap(LAMBDA i : IF refs[i].Op.responses = Nil THEN <<>>
                                 ELSE O3ExampleIndex(refs[i], orders[i]),
                      [i \in 1..Len(refs) |-> i]))

O3IndexOrders(d) ==
    IF d.paths = Nil THEN {<<>>}
    ELSE LET refs == AllRefs(Val(d.paths), MethodsB)
             keys(i) == IF refs[i].Op.responses = Nil THEN {}
                        ELSE DOMAIN Val(refs[i].Op.responses)
         IN  {o \in [1..Len(refs) -> UNION {Perms(keys(i)) : i \in 1..Len(refs)}] :
                 \A i \in 1..Len(refs) : o[i] \in Perms(keys(i))}

(***************************************************************************)
(* The dispatcher: ToMarkdown and normalizeToJSON.                         *)
(***************************************************************************)
Formats == {FormatAuto, FormatJSON, FormatYAML}

Inputs ==
    ((PathDocs \cup BucketNameDocs \cup SectionDocs \cup OperationDocs)
        \X {Options(FormatAuto, TRUE)})
        \cup ((SummaryDocs \cup ValidationDocs) \X {Options(FormatAuto, FALSE)})
        \cup (ProbeDocs \X {Options(FormatJSON, skip) : skip \in BOOLEAN})
        \cup (SyntaxDocs \X {Options(f, TRUE) : f \in Formats})

(***************************************************************************)
(* The command: the values of its --format flag.                           *)
(***************************************************************************)
Str_auto == <<97, 117, 116, 111>>
Str_json == <<106, 115, 111, 110>>
Str_yaml == <<121, 97, 109, 108>>

FormatFlags ==
    {Str_auto, <<>>, Str_json, Str_yaml,
     <<121, 109, 108>>, <<74, 83, 79, 78>>, <<65, 117, 116, 111>>, <<32, 106, 115, 111, 110>>,
     <<106, 115, 111, 110, 32>>, <<120, 109, 108>>, <<97>>, <<97, 117, 116, 111, 106, 115, 111, 110>>, <<32>>}

CommandInputs == SyntaxDocs \X FormatFlags

parseFormatFlagFolded(flag) ==
    LET lower == [i \in 1..Len(flag) |->
                     IF flag[i] \in 65..90 THEN flag[i] + 32 ELSE flag[i]]
    IN  IF lower = Str_auto \/ lower = <<>> THEN [format |-> FormatAuto, err |-> NoErr]
        ELSE IF lower = Str_json THEN [format |-> FormatJSON, err |-> NoErr]
        ELSE IF lower = Str_yaml THEN [format |-> FormatYAML, err |-> NoErr]
        ELSE [format |-> "",
              err |-> Err("invalid --format value, must be one of: auto,json,yaml")]

\* the switch of parseFormatFlag
parseFormatFlag(flag) ==
    IF flag = Str_auto \/ flag = <<>> THEN [format |-> FormatAuto, err |-> NoErr]
    ELSE IF flag = Str_json THEN [format |-> FormatJSON, err |-> NoErr]
    ELSE IF flag = Str_yaml THEN [format |-> FormatYAML, err |-> NoErr]
    ELSE [format |-> "",
          err |-> Err("invalid --format value, must be one of: auto,json,yaml")]

\* the bytes handed on ("json": valid JSON, "other": not JSON) or the error
normalizeToJSON(d, format) ==
    IF format = FormatJSON
    THEN [json |-> IF d.syntax = "json" THEN "json" ELSE "other", err |-> NoErr]
    ELSE IF format = FormatYAML
    THEN IF d.syntax = "garbage"
         THEN [json |-> "none", err |-> Err("failed to parse input as YAML: %w")]
         ELSE IF d.syntax = "yamlkeys"
         THEN [json |-> "none", err |-> Err("failed to convert YAML to JSON: %w")]
         ELSE [json |-> "json", err |-> NoErr]
    ELSE IF d.syntax = "json" THEN [json |-> "json", err |-> NoErr]
    ELSE IF d.syntax = "yaml" THEN [json |-> "json", err |-> NoErr]
    ELSE IF d.syntax = "yamlkeys"
    THEN [json |-> "none", err |-> Err("failed to convert YAML to JSON: %w")]
    ELSE [json |-> "none", err |-> Err("input is neither valid JSON nor YAML")]

versionProbe(sw, oa) == [Swagger |-> sw, OpenAPI |-> oa]

\* json.Unmarshal(jsonData, &vp) succeeds
ProbeParses(d, json) ==
    json = "json" /\ d.top = "object" /\ d.swagger # NotAString /\ d.openapi # NotAString

DispatchModernFirst(p) ==
    IF HasPrefix(p.OpenAPI, Str_3dot) THEN "B"
    ELSE IF HasPrefix(p.Swagger, Str_20) THEN "A"
    ELSE "fallback"

\* the switch of ToMarkdown
Dispatch(p) ==
    IF HasPrefix(p.Swagger, Str_20) THEN "A"
    ELSE IF HasPrefix(p.OpenAPI, Str_3dot) THEN "B"
    ELSE "fallback"

FallbackAlwaysTriesB(r) == FALSE

\* default branch: "if md, err := swagger2ToMarkdown(jsonData); err == nil"
FallbackReturnsA(r) == r.err = NoErr

ClassifyErrorOneProbe(p) ==
    [kind |-> "could not detect or parse OpenAPI version (swagger=%q, openapi=%q)",
     args |-> <<Quote(p.Swagger), Quote(p.Swagger)>>]

\* the error of the default branch when both attempts failed
ClassifyError(p) ==
    [kind |-> "could not detect or parse OpenAPI version (swagger=%q, openapi=%q)",
     args |-> <<Quote(p.Swagger), Quote(p.OpenAPI)>>]

\* doc.Validate(ctx): what the library reports for a loaded document; it
\* requires the info block with title and version, the paths and the version
Validate(d) ==
    IF d.openapi = <<>> \/ d.info = Nil \/ d.paths = Nil THEN Err("invalid document")
    ELSE IF Val(d.info).title = <<>> \/ Val(d.info).version = <<>> THEN Err("invalid document")
    ELSE NoErr

validationSurfaced(d, o) == IF ~o.SkipValidation THEN Validate(d) ELSE NoErr

\* "if !opts.SkipValidation { _ = doc.Validate(ctx) }": the error that the
\* validation step hands to the rest of openAPI3ToMarkdown
validation(d, o) ==
    LET discarded == IF ~o.SkipValidation THEN Validate(d) ELSE NoErr
    IN  NoErr

PanicMessage(adapter) ==
    IF adapter = "A" THEN "swagger2 conversion panic: %v" ELSE "openapi3 conversion panic: %v"

recoverKeepsText(adapter, b) ==
    [pc |-> "returned", aret |-> Result(b, Err(PanicMessage(adapter)))]

recoverAbsent(adapter, b) == [pc |-> "crashed", aret |-> NoResult]

\* the deferred function of an adapter, run when the walk panics
recover(adapter, b) ==
    [pc |-> "returned", aret |-> Result(<<>>, Err(PanicMessage(adapter)))]

Init ==
    /\ \/ \E in \in Inputs :
             data = in[1] /\ opts = in[2] /\ formatFlag = Nil /\ pc = "start"
       \/ \E in \in CommandInputs :
             /\ data = in[1]
             /\ opts = Options(FormatAuto, FALSE)
             /\ formatFlag = Some(in[2])
             /\ pc = "main"
    /\ jsonData = "none"
    /\ mode = "none"
    /\ vp = versionProbe(<<>>, <<>>)
    /\ buf = <<>>
    /\ aret = NoResult
    /\ ret = NoResult
    /\ calls = <<>>
    /\ run = 1
    /\ outs = <<>>

\* main: "parsedFormat, err := parseFormatFlag(formatFlag)", then either
\* os.Exit(1) or "opts.Format = parsedFormat" and the call of ToMarkdown
ParseFormat ==
    /\ pc = "main"
    /\ LET parsed == parseFormatFlag(Val(formatFlag))
       IN  IF parsed.err # NoErr
           THEN pc' = "exit" /\ UNCHANGED opts
           ELSE opts' = [opts EXCEPT !.Format = parsed.format] /\ pc' = "start"
    /\ UNCHANGED <<formatFlag, data, jsonData, mode, vp, buf, aret, ret, calls, run, outs>>

Return(r) ==
    /\ ret' = r
    /\ pc' = "done"
    /\ buf' = <<>>

Normalize ==
    /\ pc = "start"
    /\ LET n == normalizeToJSON(data, opts.Format)
       IN  IF n.err # NoErr
           THEN Return(Result(<<>>, n.err)) /\ UNCHANGED jsonData
           ELSE jsonData' = n.json /\ pc' = "probe" /\ UNCHANGED <<ret, buf>>
    /\ UNCHANGED <<formatFlag, data, opts, mode, vp, aret, calls, run, outs>>

Probe ==
    /\ pc = "probe"
    /\ IF ~ProbeParses(data, jsonData)
       THEN /\ Return(Result(<<>>, Err("failed to parse input as JSON: %w")))
            /\ UNCHANGED <<vp, mode>>
       ELSE /\ vp' = versionProbe(data.swagger, data.openapi)
            /\ mode' = IF Dispatch(vp') = "fallback" THEN "fallback" ELSE "direct"
            /\ pc' = IF Dispatch(vp') = "B" THEN "B.parse" ELSE "A.parse"
            /\ UNCHANGED <<ret, buf>>
    /\ UNCHANGED <<formatFlag, data, opts, jsonData, aret, calls, run, outs>>

(***************************************************************************)
(* The adapters as steps: parse, then one step per section.                *)
(***************************************************************************)
Write(from, to, lines) ==
    /\ pc = from
    /\ buf' = buf \o lines
    /\ pc' = to
    /\ UNCHANGED <<formatFlag, data, opts, jsonData, mode, vp, aret, ret, calls, run, outs>>

\* the adapter returns r to ToMarkdown
AdapterReturn(adapter, r) ==
    /\ aret' = r
    /\ pc' = IF adapter = "A" THEN "A.returned" ELSE "B.returned"
    /\ buf' = <<>>

\* a nil dereference in the walk: the deferred function decides what happens
Panic(adapter) ==
    LET u == recover(adapter, buf)
    IN  /\ aret' = u.aret
        /\ pc' = IF u.pc = "crashed" THEN "crashed"
                 ELSE IF adapter = "A" THEN "A.returned" ELSE "B.returned"
        /\ buf' = <<>>

S2Parse ==
    /\ pc = "A.parse"
    /\ calls' = Append(calls, "A")
    /\ IF data.acceptsA
       THEN buf' = <<>> /\ pc' = "A.overview" /\ UNCHANGED aret
       ELSE AdapterReturn("A", Result(<<>>, Err("parse swagger 2.0: %w")))
    /\ UNCHANGED <<formatFlag, data, opts, jsonData, mode, vp, ret, run, outs>>

S2WriteOverview == Write("A.overview", "A.authentication", S2Overview(data))

S2WriteAuthentication ==
    \E order \in Perms(DOMAIN data.security) :
        Write("A.authentication", "A.servers", S2Authentication(data, order))

S2WriteServers == Write("A.servers", "A.tags", S2Servers(data))

S2WriteTags == Write("A.tags", "A.endpoints", S2Tags(data))

S2WriteEndpoints ==
    /\ pc = "A.endpoints"
    /\ IF data.paths = Nil
       THEN Panic("A")
       ELSE buf' = buf \o S2Endpoints(data) /\ pc' = "A.schemas" /\ UNCHANGED aret
    /\ UNCHANGED <<formatFlag, data, opts, jsonData, mode, vp, ret, calls, run, outs>>

S2WriteSchemas == Write("A.schemas", "A.examples", S2Schemas(data))

S2WriteExamples ==
    /\ pc = "A.examples"
    /\ \E orders \in S2IndexOrders(data) :
          AdapterReturn("A", Result(buf \o S2Examples(data, orders), NoErr))
    /\ UNCHANGED <<formatFlag, data, opts, jsonData, mode, vp, ret, calls, run, outs>>

O3Parse ==
    /\ pc = "B.parse"
    /\ calls' = Append(calls, "B")
    /\ IF ~data.acceptsB
       THEN AdapterReturn("B", Result(<<>>, Err("parse openapi 3: %w")))
       ELSE IF validation(data, opts) # NoErr
       THEN AdapterReturn("B", Result(<<>>, validation(data, opts)))
       ELSE buf' = <<>> /\ pc' = "B.overview" /\ UNCHANGED aret
    /\ UNCHANGED <<formatFlag, data, opts, jsonData, mode, vp, ret, run, outs>>

O3WriteOverview == Write("B.overview", "B.authentication", O3Overview(data))

O3WriteAuthentication ==
    /\ pc = "B.authentication"
    /\ IF ~data.components
       THEN Panic("B")
       ELSE buf' = buf \o O3Authentication(data) /\ pc' = "B.servers" /\ UNCHANGED aret
    /\ UNCHANGED <<formatFlag, data, opts, jsonData, mode, vp, ret, calls, run, outs>>

O3WriteServers == Write("B.servers", "B.tags", O3Servers(data))

O3WriteTags == Write("B.tags", "B.endpoints", O3Tags(data))

O3WriteEndpoints == Write("B.endpoints", "B.schemas", O3Endpoints(data))

O3WriteSchemas == Write("B.schemas", "B.examples", O3Schemas(data))

O3WriteExamples ==
    /\ pc = "B.examples"
    /\ \E orders \in O3IndexOrders(data) :
          AdapterReturn("B", Result(buf \o O3Examples(data, orders), NoErr))
    /\ UNCHANGED <<formatFlag, data, opts, jsonData, mode, vp, ret, calls, run, outs>>

AfterAFallsThrough ==
    /\ pc = "A.returned"
    /\ IF FallbackReturnsA(aret)
       THEN Return(Result(aret.md, NoErr))
       ELSE pc' = "B.parse" /\ UNCHANGED <<ret, buf>>
    /\ UNCHANGED <<formatFlag, data, opts, jsonData, mode, vp, aret, calls, run, outs>>

\* ToMarkdown after swagger2ToMarkdown returned
AfterA ==
    /\ pc = "A.returned"
    /\ IF mode = "direct"
       THEN Return(aret)
       ELSE IF FallbackReturnsA(aret)
       THEN Return(Result(aret.md, NoErr))
       ELSE pc' = "B.parse" /\ UNCHANGED <<ret, buf>>
    /\ UNCHANGED <<formatFlag, data, opts, jsonData, mode, vp, aret, calls, run, outs>>

\* ToMarkdown after openAPI3ToMarkdown returned
AfterB ==
    /\ pc = "B.returned"
    /\ IF mode = "direct"
       THEN Return(aret)
       ELSE IF aret.err = NoErr
       THEN Return(Result(aret.md, NoErr))
       ELSE Return(Result(<<>>, ClassifyError(vp)))
    /\ UNCHANGED <<formatFlag, data, opts, jsonData, mode, vp, aret, calls, run, outs>>

\* the caller renders the same input again
Again ==
    /\ pc = "done"
    /\ run < Runs
    /\ outs' = Append(outs, ret)
    /\ run' = run + 1
    /\ pc' = "start"
    /\ jsonData' = "none"
    /\ mode' = "none"
    /\ vp' = versionProbe(<<>>, <<>>)
    /\ buf' = <<>>
    /\ aret' = NoResult
    /\ ret' = NoResult
    /\ calls' = <<>>
    /\ UNCHANGED <<formatFlag, data, opts>>

\* the caller renders the same input once more, now without validation
AgainSkipping ==
    /\ pc = "done"
    /\ run = Runs
    /\ ~opts.SkipValidation
    /\ opts' = [opts EXCEPT !.SkipValidation = TRUE]
    /\ outs' = Append(outs, ret)
    /\ run' = run + 1
    /\ pc' = "start"
    /\ jsonData' = "none"
    /\ mode' = "none"
    /\ vp' = versionProbe(<<>>, <<>>)
    /\ buf' = <<>>
    /\ aret' = NoResult
    /\ ret' = NoResult
    /\ calls' = <<>>
    /\ UNCHANGED <<formatFlag, data>>

Next ==
    \/ ParseFormat
    \/ Normalize
    \/ Probe
    \/ S2Parse
    \/ S2WriteOverview
    \/ S2WriteAuthentication
    \/ S2WriteServers
    \/ S2WriteTags
    \/ S2WriteEndpoints
    \/ S2WriteSchemas
    \/ S2WriteExamples
    \/ O3Parse
    \/ O3WriteOverview
    \/ O3WriteAuthentication
    \/ O3WriteServers
    \/ O3WriteTags
    \/ O3WriteEndpoints
    \/ O3WriteSchemas
    \/ O3WriteExamples
    \/ AfterA
    \/ AfterB
    \/ Again
    \/ AgainSkipping

Spec == Init /\ [][Next]_vars

(***************************************************************************)
(* Reading a rendered document back.                                       *)
(***************************************************************************)
SectionOrder ==
    <<"## Overview", "## Authentication", "## Servers", "## Tags",
      "## Endpoints by Tag", "## Schemas", "## Examples">>

IsH2(l) == l.k \in Range(SectionOrder)
IsH3(l) == l.k = "### %s"
IsH4(l) == l.k = "#### %s %s"

\* the level-2 headings of md, in order of appearance
H2Seq(md) ==
    LET hs == SelectSeq(md, IsH2) IN [i \in 1..Len(hs) |-> hs[i].k]

\* the index after the last line of the section whose heading is line i
SectionEnd(md, i) ==
    IF \E j \in (i + 1)..Len(md) : IsH2(md[j])
    THEN CHOOSE j \in (i + 1)..Len(md) :
            IsH2(md[j]) /\ \A k \in (i + 1)..(j - 1) : ~IsH2(md[k])
    ELSE Len(md) + 1

\* the lines of the section whose heading is line i
SectionLines(md, i) == SubSeq(md, i + 1, SectionEnd(md, i) - 1)

\* its body: the lines that are not blank
SectionBody(md, i) == SelectSeq(SectionLines(md, i), LAMBDA l : l # Blank)

HeadingIndex(md, name) == CHOOSE i \in 1..Len(md) : md[i] = H2(name)

\* the lines of the Endpoints by Tag section
EndpointLines(md) == SectionLines(md, HeadingIndex(md, "## Endpoints by Tag"))

\* the ### heading that line i of the section e stands under
GroupOf(e, i) ==
    LET j == CHOOSE j \in 1..(i - 1) :
                IsH3(e[j]) /\ \A k \in (j + 1)..(i - 1) : ~IsH3(e[k])
    IN  e[j]

\* how often the operation heading h4 stands under the heading h3
CountUnder(e, h3, h4) ==
    Cardinality({i \in 1..Len(e) : e[i] = h4 /\ GroupOf(e, i) = h3})

CountIn(e, h4) == Cardinality({i \in 1..Len(e) : e[i] = h4})

Rendered == pc = "done" /\ ret.err = NoErr
RenderedBy == calls[Len(calls)]
MethodsOf(adapter) == IF adapter = "A" THEN MethodsA ELSE MethodsB

\* the operations the adapter that rendered the document finds in it
OperationsOf(d, adapter) ==
    IF d.paths = Nil THEN {}
    ELSE {s \in DOMAIN Val(d.paths) : s[2] \in Range(MethodsOf(adapter))}

(***************************************************************************)
(* C1  Rendering the same document twice yields identical output: the      *)
(* second render call on an input returns the same text and error as the   *)
(* first.                                                                  *)
(***************************************************************************)
C1_SameOutputTwice ==
    (pc = "done" /\ run = 2) => ret = outs[1]

(***************************************************************************)
(* C2  Every document that renders without error contains the seven        *)
(* level-2 headings exactly once and in the declared order.                *)
(***************************************************************************)
C2_AllSectionsOnceInOrder ==
    Rendered => H2Seq(ret.md) = SectionOrder

(***************************************************************************)
(* C3  No level-2 heading is followed by an empty body, and a section with *)
(* nothing to list (no security schemes, servers, tags, operations,        *)
(* schemas, responses with examples) has the body "- None defined".        *)
(***************************************************************************)
NothingToList(d, adapter, name) ==
    CASE name = "## Authentication" -> DOMAIN d.security = {}
      [] name = "## Servers" -> d.host = <<>>
      [] name = "## Tags" -> d.tags = <<>>
      [] name = "## Endpoints by Tag" -> OperationsOf(d, adapter) = {}
      [] name = "## Schemas" -> d.schemas = {}
      [] name = "## Examples" ->
            \A s \in OperationsOf(d, adapter) :
                LET r == Val(d.paths)[s].responses
                IN  r = Nil \/ \A c \in DOMAIN Val(r) :
                                  \/ Val(r)[c].examples = {}
                                  \/ adapter = "B" /\ ~Val(r)[c].anon /\ Val(r)[c].named = {}
      [] OTHER -> FALSE

C3_EmptySectionSaysNone ==
    Rendered =>
        \A i \in 1..Len(ret.md) :
            IsH2(ret.md[i]) =>
                /\ SectionBody(ret.md, i) # <<>>
                /\ NothingToList(data, RenderedBy, ret.md[i].k)
                       => SectionBody(ret.md, i) = <<NoneDefined>>

(***************************************************************************)
(* C4  An operation without tags is rendered exactly once, under           *)
(* "### Untagged"; an operation with tags is rendered exactly once under   *)
(* the heading of each of its tags and never under "### Untagged".         *)
(***************************************************************************)
C4_OncePerTag ==
    (Rendered /\ data.paths # Nil) =>
        LET e == EndpointLines(ret.md)
        IN  \A s \in OperationsOf(data, RenderedBy) :
                LET op == Val(data.paths)[s]
                    h4 == H4(s[2], s[1])
                IN  IF op.tags = <<>>
                    THEN CountIn(e, h4) = 1 /\ CountUnder(e, H3(Str_Untagged), h4) = 1
                    ELSE /\ \A t \in Range(op.tags) : CountUnder(e, H3(t), h4) = 1
                         /\ CountUnder(e, H3(Str_Untagged), h4) = 0

(***************************************************************************)
(* C5  Under Endpoints by Tag the tag headings are in lexicographic order, *)
(* the operations under one heading are ordered by path and then by the    *)
(* method order GET, POST, PUT, DELETE, PATCH, OPTIONS, HEAD, TRACE, and   *)
(* the Untagged bucket, when there is one, comes after every tag heading.  *)
(***************************************************************************)
MethodRank(m) == CHOOSE i \in 1..Len(MethodsB) : MethodsB[i] = m

\* the operation heading a does not come after the operation heading b
OperationLeq(a, b) ==
    \/ LexLess(a.args[2], b.args[2])
    \/ a.args[2] = b.args[2] /\ MethodRank(a.args[1]) <= MethodRank(b.args[1])

HasUntagged(d, adapter) ==
    \E s \in OperationsOf(d, adapter) : Val(d.paths)[s].tags = <<>>

C5_EndpointOrder ==
    (Rendered /\ data.paths # Nil) =>
        LET e == EndpointLines(ret.md)
            hs == SelectSeq(e, IsH3)
            ntags == IF HasUntagged(data, RenderedBy) THEN Len(hs) - 1 ELSE Len(hs)
        IN  /\ \A i \in 1..(ntags - 1) : LexLess(hs[i].args[1], hs[i + 1].args[1])
            /\ HasUntagged(data, RenderedBy) =>
                   Len(hs) >= 1 /\ hs[Len(hs)] = H3(Str_Untagged)
            /\ \A i, j \in 1..Len(e) :
                   (i < j /\ IsH4(e[i]) /\ IsH4(e[j]) /\ GroupOf(e, i) = GroupOf(e, j)
                      /\ \A k \in i..j : ~IsH3(e[k]))
                       => OperationLeq(e[i], e[j])

C5_Witness ==
    /\ Rendered /\ data.paths # Nil
    /\ HasUntagged(data, RenderedBy)
    /\ Len(SelectSeq(EndpointLines(ret.md), IsH3)) = 3
    /\ Len(SelectSeq(EndpointLines(ret.md), IsH4)) >= 3

(***************************************************************************)
(* C6  Dispatch priority: a legacy marker starting with "2.0" selects the  *)
(* dialect-A adapter, also when the modern marker starts with "3."; else a *)
(* modern marker starting with "3." selects the dialect-B adapter; only    *)
(* when neither matches is the fallback sequence entered.                  *)
(***************************************************************************)
StartsWith20(s) == Len(s) >= 3 /\ SubSeq(s, 1, 3) = <<50, 46, 48>>
StartsWith3dot(s) == Len(s) >= 2 /\ SubSeq(s, 1, 2) = <<51, 46>>

C6_DispatchPriority ==
    mode # "none" =>
        IF StartsWith20(data.swagger)
        THEN mode = "direct" /\ "B" \notin Range(calls)
               /\ (pc = "done" => calls = <<"A">>)
        ELSE IF StartsWith3dot(data.openapi)
        THEN mode = "direct" /\ "A" \notin Range(calls)
               /\ (pc = "done" => calls = <<"B">>)
        ELSE mode = "fallback"

C6_Witness ==
    /\ pc = "done" /\ calls = <<"A">> /\ mode = "direct"
    /\ StartsWith20(data.swagger) /\ StartsWith3dot(data.openapi)

(***************************************************************************)
(* C7  In the fallback sequence dialect A is attempted first; when that    *)
(* attempt succeeds its rendering is the result and the dialect-B adapter  *)
(* is never invoked; the dialect-B adapter is invoked only after the       *)
(* dialect-A attempt returned an error.                                    *)
(***************************************************************************)
C7_FallbackOrder ==
    [][ /\ mode' = "fallback" => calls' \in {<<>>, <<"A">>, <<"A", "B">>}
        /\ (mode = "fallback" /\ pc = "A.returned" /\ aret.err = NoErr)
              => (pc' = "done" /\ ret' = Result(aret.md, NoErr) /\ calls' = <<"A">>)
        /\ (mode = "fallback" /\ pc' = "B.parse")
              => (pc = "A.returned" /\ aret.err # NoErr)
        /\ (mode' = "fallback" /\ pc' = "done" /\ calls' = <<"A">>)
              => ret'.err = NoErr
      ]_vars

C7_Witness ==
    /\ mode = "fallback" /\ pc = "done" /\ calls = <<"A">>
    /\ ret.err = NoErr /\ ret.md # <<>> /\ data.acceptsB

(***************************************************************************)
(* C8  When neither probe matches and both attempts fail, the call returns *)
(* no text and a classification-failure error whose message holds both     *)
(* probe values as read from the document.                                 *)
(***************************************************************************)
ClassificationFailure ==
    "could not detect or parse OpenAPI version (swagger=%q, openapi=%q)"

C8_ClassificationError ==
    (pc = "done" /\ mode = "fallback" /\ calls = <<"A", "B">> /\ aret.err # NoErr) =>
        /\ ret.md = <<>>
        /\ ret.err.kind = ClassificationFailure
        /\ <<34>> \o data.swagger \o <<34>> \in Range(ret.err.args)
        /\ <<34>> \o data.openapi \o <<34>> \in Range(ret.err.args)

C8_Witness ==
    /\ pc = "done" /\ mode = "fallback" /\ calls = <<"A", "B">>
    /\ ret.err.kind = ClassificationFailure
    /\ data.swagger # data.openapi
    /\ data.swagger # <<>>

(***************************************************************************)
(* C9  No partial output accompanies an error: a result with an error has  *)
(* empty text, and a result with text has no error.  This holds for what   *)
(* an adapter returns and for what the render call returns.                *)
(***************************************************************************)
NoPartial(r) == (r.err # NoErr => r.md = <<>>) /\ (r.md # <<>> => r.err = NoErr)

C9_NoPartialOutput ==
    /\ pc = "done" => NoPartial(ret)
    /\ pc \in {"A.returned", "B.returned"} => NoPartial(aret)

C9_Witness ==
    /\ pc = "done" /\ mode = "direct"
    /\ ret.err.kind = "swagger2 conversion panic: %v"
    /\ ret.md = <<>>

(***************************************************************************)
(* C10  A fault while an adapter walks a parsed document never reaches the *)
(* caller: the adapter returns an error and empty text, the text written   *)
(* before the fault is dropped, and the call never panics.                 *)
(***************************************************************************)
FaultsNow ==
    \/ pc = "A.endpoints" /\ data.paths = Nil
    \/ pc = "B.authentication" /\ ~data.components

C10_FaultsAreCaught ==
    [][ /\ pc' # "crashed"
        /\ FaultsNow => /\ buf # <<>>
                        /\ pc' \in {"A.returned", "B.returned"}
                        /\ aret'.err # NoErr
                        /\ aret'.md = <<>>
      ]_vars

C10_Witness ==
    /\ pc = "A.returned"
    /\ data.paths = Nil
    /\ aret = Result(<<>>, Err("swagger2 conversion panic: %v"))

(***************************************************************************)
(* C11  Validation never blocks or alters rendering: the render call made  *)
(* without validation returns the error of the call made with validation   *)
(* on the same document, and the same text wherever the text of the        *)
(* document does not depend on the order of a map iteration; a dialect-B   *)
(* document that is loaded but fails validation is rendered with no error. *)
(***************************************************************************)
\* the rendering of d walks a map with more than one key in range order
OrderOpen(d) ==
    \/ Cardinality(DOMAIN d.security) > 1
    \/ /\ d.paths # Nil
       /\ \E s \in DOMAIN Val(d.paths) :
              LET r == Val(d.paths)[s].responses
              IN  r # Nil /\ Cardinality({c \in DOMAIN Val(r) : Val(r)[c].examples # {}}) > 1

OnlyInfoMissing ==
    /\ data.info = Nil
    /\ data.paths # Nil
    /\ data.components
    /\ calls # <<>>
    /\ IF RenderedBy = "A" THEN data.acceptsA ELSE data.acceptsB

\* the part of the statement that does not depend on the skeleton
C12_NoInfoStartsWithHeading ==
    (pc = "done" /\ OnlyInfoMissing) =>
        /\ ret.err = NoErr
        /\ ret.md # <<>>
        /\ ret.md[1] = H1(Str_dash)

C12_NoInfoRenders ==
    (pc = "done" /\ OnlyInfoMissing) =>
        /\ ret.err = NoErr
        /\ ret.md # <<>>
        /\ ret.md[1] = H1(Str_dash)
        /\ H2Seq(ret.md) = SectionOrder

(***************************************************************************)
(* Reading the schema descriptors of a rendered document back.             *)
(***************************************************************************)
\* the schema nodes that stand in the document
SchemasIn(d) ==
    UNION {Range(d.properties[n]) : n \in DOMAIN d.properties}
      \cup (IF d.paths = Nil THEN {}
            ELSE UNION {LET op == Val(d.paths)[s]
                            given == {op.parameters[i].schema : i \in DOMAIN op.parameters}
                                       \cup {op.piParameters[i].schema : i \in DOMAIN op.piParameters}
                                       \cup (IF op.requestBody = Nil THEN {}
                                             ELSE {Val(op.requestBody).schema})
                                       \cup (IF op.responses = Nil THEN {}
                                             ELSE {Val(op.responses)[c].schema :
                                                      c \in DOMAIN Val(op.responses)})
                        IN  {Val(o) : o \in given \ {Nil}} : s \in DOMAIN Val(d.paths)})

\* the document holds one and the same schema node in all its schema places
UniformSchema(d) == Cardinality(SchemasIn(d)) = 1
TheSchema(d) == CHOOSE n \in SchemasIn(d) : TRUE

LinesLike(md, format) == {l \in Range(md) : l.k = format}

\* the descriptors shown on the lines of each kind
PropertyDescriptors(md) == {l.args[2] : l \in LinesLike(md, "- '%s' (%s)%s%s%s")}
ParameterDescriptors(md) == {l.args[3] : l \in LinesLike(md, "- %s '%s' (%s)%s")}
RequestBodyDescriptors(md) == {l.args[2] : l \in LinesLike(md, "- %s - schema: %s")}
ResponseDescriptors(md) ==
    {l.args[3] : l \in LinesLike(md, "- %d - %s (schema: %s)")}
        \cup {l.args[2] : l \in LinesLike(md, "- default - %s (schema: %s)")}
        \cup {l.args[2] : l \in LinesLike(md, "  - %s - schema: %s")}

\* the response lines that show no descriptor
BareResponseLines(md) == LinesLike(md, "- %d - %s") \cup LinesLike(md, "- default - %s")

\* the text after the last "/" of a reference
LastSegment(ref) ==
    CHOOSE t \in {SubSeq(ref, i, Len(ref)) : i \in 1..(Len(ref) + 1)} :
        /\ 47 \notin Range(t)
        /\ Len(t) < Len(ref) => ref[Len(ref) - Len(t)] = 47

RECURSIVE CommaJoined(_)
CommaJoined(types) ==
    IF Len(types) = 1 THEN types[1]
    ELSE CommaJoined(SubSeq(types, 1, Len(types) - 1)) \o <<44>> \o types[Len(types)]

(***************************************************************************)
(* C13  Array summarization, in both dialects: a schema that is not a      *)
(* reference, whose declared type is exactly "array" and that has an item  *)
(* schema is summarized as Name[] when the item refers to the definition   *)
(* Name, as array<t1,t2,...> when the item is no reference and declares    *)
(* the types t1, t2, ..., and as "array" when the item declares neither.   *)
(***************************************************************************)
ArrayDescriptor(it) ==
    IF it.ref # <<>> THEN LastSegment(it.ref) \o <<91, 93>>
    ELSE IF it.type # <<>> THEN <<97, 114, 114, 97, 121, 60>> \o CommaJoined(it.type) \o <<62>>
    ELSE <<97, 114, 114, 97, 121>>

IsArrayWithItems(n) == n.ref = <<>> /\ n.type = <<Str_array>> /\ n.items # Nil

C13_ArraySummary ==
    (Rendered /\ UniformSchema(data) /\ IsArrayWithItems(TheSchema(data))) =>
        LET e == ArrayDescriptor(Val(TheSchema(data).items))
        IN  /\ PropertyDescriptors(ret.md) = {e}
            /\ ResponseDescriptors(ret.md) = {e}
            /\ RenderedBy = "B" =>
                   /\ ParameterDescriptors(ret.md) = {e}
                   /\ RequestBodyDescriptors(ret.md) = {e}

C13_Witness ==
    /\ Rendered /\ UniformSchema(data) /\ IsArrayWithItems(TheSchema(data))
    /\ RenderedBy = "B"
    /\ Val(TheSchema(data).items).type = <<Str_string, Str_integer>>
    /\ ResponseDescriptors(ret.md) =
           {<<97, 114, 114, 97, 121, 60, 115, 116, 114, 105, 110, 103, 44,
              105, 110, 116, 101, 103, 101, 114, 62>>}

(***************************************************************************)
(* C14  Reference priority: a schema node that refers to a named           *)
(* definition is summarized by the name of the definition, the last        *)
(* segment of the reference, whatever type, items or format it declares;   *)
(* dialect A shows the bare name and dialect B the name after the marker   *)
(* "$ref:", which no other descriptor of dialect B starts with.            *)
(***************************************************************************)
RefMarker == <<36, 114, 101, 102, 58>>

C14_ReferenceFirst ==
    (Rendered /\ UniformSchema(data)) =>
        LET n == TheSchema(data)
            shown == PropertyDescriptors(ret.md) \cup ResponseDescriptors(ret.md)
            shownB == shown \cup ParameterDescriptors(ret.md) \cup RequestBodyDescriptors(ret.md)
        IN  /\ (n.ref # <<>> /\ RenderedBy = "A") => shown = {LastSegment(n.ref)}
            /\ (n.ref # <<>> /\ RenderedBy = "B") => shownB = {RefMarker \o LastSegment(n.ref)}
            /\ (n.ref = <<>> /\ RenderedBy = "B") =>
                   \A x \in shownB : ~HasPrefix(x, RefMarker)

C14_Witness ==
    /\ Rendered /\ UniformSchema(data)
    /\ RenderedBy = "A"
    /\ TheSchema(data).ref # <<>>
    /\ TheSchema(data).type = <<Str_array>>
    /\ TheSchema(data).items # Nil
    /\ TheSchema(data).format # <<>>
    /\ ResponseDescriptors(ret.md) = {<<80, 101, 116>>}

(***************************************************************************)
(* C15  Summarizer fallback: a schema node that is no reference and        *)
(* declares no type is shown as "object" in a dialect-B document and as    *)
(* the placeholder "-" in a dialect-A document, in every place a schema    *)
(* descriptor is rendered: property lines, parameter lines, request-body   *)
(* lines and response lines.                                               *)
(***************************************************************************)
IsUntyped(n) == n.ref = <<>> /\ n.type = <<>>

\* the statement without the response lines of dialect A
C15_FallbackOutsideResponsesA ==
    (Rendered /\ UniformSchema(data) /\ IsUntyped(TheSchema(data))) =>
        IF RenderedBy = "B"
        THEN /\ PropertyDescriptors(ret.md) = {<<111, 98, 106, 101, 99, 116>>}
             /\ ParameterDescriptors(ret.md) = {<<111, 98, 106, 101, 99, 116>>}
             /\ RequestBodyDescriptors(ret.md) = {<<111, 98, 106, 101, 99, 116>>}
             /\ ResponseDescriptors(ret.md) = {<<111, 98, 106, 101, 99, 116>>}
        ELSE /\ PropertyDescriptors(ret.md) = {<<45>>}
             /\ ParameterDescriptors(ret.md) = {<<45>>}

C15_FallbackEverywhere ==
    (Rendered /\ UniformSchema(data) /\ IsUntyped(TheSchema(data))) =>
        IF RenderedBy = "B"
        THEN /\ PropertyDescriptors(ret.md) = {<<111, 98, 106, 101, 99, 116>>}
             /\ ParameterDescriptors(ret.md) = {<<111, 98, 106, 101, 99, 116>>}
             /\ RequestBodyDescriptors(ret.md) = {<<111, 98, 106, 101, 99, 116>>}
             /\ ResponseDescriptors(ret.md) = {<<111, 98, 106, 101, 99, 116>>}
        ELSE /\ PropertyDescriptors(ret.md) = {<<45>>}
             /\ ParameterDescriptors(ret.md) = {<<45>>}
             /\ ResponseDescriptors(ret.md) = {<<45>>}
             /\ BareResponseLines(ret.md) = {}

(***************************************************************************)
(* Reading the response lines and the example labels back.                 *)
(***************************************************************************)
ResponseLineFormats ==
    {"- %d - %s", "- %d - %s (schema: %s)", "- default - %s",
     "- default - %s (schema: %s)", "- %s - %s"}

IsResponseLine(l) == l.k \in ResponseLineFormats

\* the status and the description a response line shows
StatusOn(l) ==
    IF l.k \in {"- default - %s", "- default - %s (schema: %s)"}
    THEN <<100, 101, 102, 97, 117, 108, 116>> ELSE l.args[1]
DescriptionOn(l) ==
    IF l.k \in {"- default - %s", "- default - %s (schema: %s)"} THEN l.args[1] ELSE l.args[2]

\* the positions of the response lines of md for the status key
ResponseLinesFor(md, key) ==
    {i \in 1..Len(md) : IsResponseLine(md[i]) /\ StatusOn(md[i]) = key}

OnlyBlanks(str) == \A i \in 1..Len(str) : str[i] = 32

(***************************************************************************)
(* C16  Every rendered response line, for a numeric status code or for     *)
(* "default" and in both dialects, carries a description: when the         *)
(* description of the response is absent, empty or only white space the    *)
(* line shows "No description", also when the response has no schema.      *)
(***************************************************************************)
C16_DescriptionFallback ==
    (Rendered /\ data.paths # Nil) =>
        /\ \A i \in 1..Len(ret.md) :
               IsResponseLine(ret.md[i]) => DescriptionOn(ret.md[i]) # <<>>
        /\ \A s \in OperationsOf(data, RenderedBy) :
               LET r == Val(data.paths)[s].responses
               IN  r # Nil =>
                     \A key \in DOMAIN Val(r) :
                         /\ ResponseLinesFor(ret.md, key) # {}
                         /\ OnlyBlanks(Val(r)[key].desc) =>
                                \A i \in ResponseLinesFor(ret.md, key) :
                                    DescriptionOn(ret.md[i]) =
                                        <<78, 111, 32, 100, 101, 115, 99, 114, 105, 112,
                                          116, 105, 111, 110>>

C16_Witness ==
    /\ Rendered /\ RenderedBy = "A"
    /\ \E i \in 1..Len(ret.md) :
           ret.md[i] = Line("- %d - %s", <<Str_200, Str_NoDescription>>)
    /\ \E s \in OperationsOf(data, "A") :
           LET r == Val(data.paths)[s].responses
           IN  r # Nil /\ Str_200 \in DOMAIN Val(r)
                 /\ Val(r)[Str_200].desc = Str_blank /\ Val(r)[Str_200].schema = Nil

(***************************************************************************)
(* The labels of the examples: a label is the line before a fence.         *)
(***************************************************************************)
LabelPositions(md) == {i \in 1..(Len(md) - 1) : md[i + 1].k = "fence %s"}

\* the last position before i whose line satisfies P (0 if there is none)
LastBefore(md, i, P(_)) ==
    IF \E j \in 1..(i - 1) : P(md[j])
    THEN CHOOSE j \in 1..(i - 1) : P(md[j]) /\ \A k \in (j + 1)..(i - 1) : ~P(md[k])
    ELSE 0

IsResponsesHeading(l) == l.k = "**Responses**"

\* position i lies in the section of an operation
InOperation(md, i) == LastBefore(md, i, IsH4) > LastBefore(md, i, IsH2)

\* position i lies in the responses of an operation / before them
InResponses(md, i) ==
    InOperation(md, i)
        /\ LastBefore(md, i, IsResponsesHeading) > LastBefore(md, i, IsH4)
InRequest(md, i) ==
    InOperation(md, i)
        /\ LastBefore(md, i, IsResponsesHeading) < LastBefore(md, i, IsH4)

\* the operation in whose section position i lies
EnclosingOperation(d, md, i) ==
    LET h == md[LastBefore(md, i, IsH4)] IN Val(d.paths)[<<h.args[2], h.args[1]>>]

\* the response under whose line position i lies
EnclosingResponse(d, md, i) ==
    Val(EnclosingOperation(d, md, i).responses)[StatusOn(md[LastBefore(md, i, IsResponseLine)])]

EnclosingStatus(md, i) == StatusOn(md[LastBefore(md, i, IsResponseLine)])

(***************************************************************************)
(* C17  Every response example rendered in an endpoint section carries a   *)
(* label of the form "Response example (<status>, <media-type>)" or        *)
(* "Response example (<name>, <status>, <media-type>)", where status,      *)
(* media type and name are those of the response, the content entry and    *)
(* the example it was taken from.                                          *)
(***************************************************************************)
C17_ResponseLabels ==
    Rendered =>
        \A i \in LabelPositions(ret.md) :
            InResponses(ret.md, i) =>
                LET l == ret.md[i]
                    r == EnclosingResponse(data, ret.md, i)
                    status == EnclosingStatus(ret.md, i)
                IN  \/ /\ l.k \in {"Response example (%d, %s)", "Response example (%s, %s)"}
                       /\ l.args = <<status, l.args[2]>>
                       /\ l.args[2] \in r.examples
                       /\ RenderedBy = "B" => r.anon
                    \/ /\ l.k = "Response example (%s, %s, %s)"
                       /\ l.args = <<l.args[1], status, l.args[3]>>
                       /\ l.args[1] \in r.named
                       /\ l.args[3] \in r.examples

C17_Witness ==
    /\ Rendered /\ RenderedBy = "B"
    /\ \E i \in LabelPositions(ret.md) :
           /\ InResponses(ret.md, i)
           /\ ret.md[i] = Line("Response example (%s, %s, %s)", <<Str_alt, Str_200, Str_appjson>>)
    /\ \E i \in LabelPositions(ret.md) :
           /\ InResponses(ret.md, i)
           /\ ret.md[i] = Line("Response example (%s, %s)", <<Str_200, Str_appxml>>)

(***************************************************************************)
(* C18  Every request example rendered in an endpoint section carries a    *)
(* label of the form "Request example (<media-type>)" or                   *)
(* "Request example (<name>, <media-type>)"; no request example has a      *)
(* label without the parenthesised media type, also not for a dialect-A    *)
(* body parameter when neither the operation nor the document declares     *)
(* consumed media types.                                                   *)
(***************************************************************************)
\* the media types of the request of an operation
RequestMediaTypes(d, op, adapter) ==
    IF adapter = "A"
    THEN IF op.consumes # <<>> THEN Range(op.consumes) ELSE Range(d.consumes)
    ELSE IF op.requestBody = Nil THEN {} ELSE Val(op.requestBody).content

RequestExampleNames(op, adapter) ==
    IF adapter = "A" \/ op.requestBody = Nil THEN {} ELSE Val(op.requestBody).named

IsRequestLabel(d, md, i, adapter) ==
    LET l == md[i]
        op == EnclosingOperation(d, md, i)
    IN  \/ /\ l.k = "Request example (%s)"
           /\ Len(l.args) = 1
           /\ l.args[1] \in RequestMediaTypes(d, op, adapter)
        \/ /\ l.k = "Request example (%s, %s)"
           /\ Len(l.args) = 2
           /\ l.args[1] \in RequestExampleNames(op, adapter)
           /\ l.args[2] \in RequestMediaTypes(d, op, adapter)

\* the statement for the operations that have a media type for the request
C18_RequestLabelsWithMediaType ==
    Rendered =>
        \A i \in LabelPositions(ret.md) :
            (InRequest(ret.md, i)
               /\ RequestMediaTypes(data, EnclosingOperation(data, ret.md, i), RenderedBy) # {})
                => IsRequestLabel(data, ret.md, i, RenderedBy)

C18_RequestLabels ==
    Rendered =>
        \A i \in LabelPositions(ret.md) :
            InRequest(ret.md, i) => IsRequestLabel(data, ret.md, i, RenderedBy)

(***************************************************************************)
(* C19  The examples of one request body or one response are emitted in a  *)
(* fixed order: media types in lexicographic order; within a media type    *)
(* the inline example before the named examples; named examples in the     *)
(* lexicographic order of their names.  This holds for the request and     *)
(* response examples of both dialects.                                     *)
(***************************************************************************)
IsNamedLabel(l) == l.k \in {"Request example (%s, %s)", "Response example (%s, %s, %s)"}
MediaTypeOn(l) == IF l.args = <<>> THEN <<>> ELSE l.args[Len(l.args)]

\* the example labelled a comes before the example labelled b
LabelBefore(a, b) ==
    \/ LexLess(MediaTypeOn(a), MediaTypeOn(b))
    \/ /\ MediaTypeOn(a) = MediaTypeOn(b)
       /\ \/ ~IsNamedLabel(a) /\ IsNamedLabel(b)
          \/ IsNamedLabel(a) /\ IsNamedLabel(b) /\ LexLess(a.args[1], b.args[1])

IsGroupStart(l) == IsH4(l) \/ IsResponsesHeading(l) \/ IsResponseLine(l)

\* positions i and j belong to the same request body or the same response
SameGroup(md, i, j) == LastBefore(md, i, IsGroupStart) = LastBefore(md, j, IsGroupStart)

\* the statement without the request examples of dialect A
C19_ExampleOrderOutsideRequestsA ==
    Rendered =>
        \A i, j \in LabelPositions(ret.md) :
            (i < j /\ SameGroup(ret.md, i, j)
               /\ ~(RenderedBy = "A" /\ InRequest(ret.md, i)))
                => LabelBefore(ret.md[i], ret.md[j])

C19_ExampleOrder ==
    Rendered =>
        \A i, j \in LabelPositions(ret.md) :
            (i < j /\ SameGroup(ret.md, i, j)) => LabelBefore(ret.md[i], ret.md[j])

(***************************************************************************)
(* C20  The parameter list of a rendered operation combines the            *)
(* parameters of the path item and of the operation and holds each (name,  *)
(* location) pair on at most one line; where both levels declare the pair  *)
(* the parameter of the operation is the one rendered, and a path-level    *)
(* parameter that the operation does not override is rendered.             *)
(***************************************************************************)
IsParameterLine(l) == l.k = "- %s '%s' (%s)%s"

\* the positions of the parameter lines for the pair (location, name)
ParameterLinesFor(md, in, name) ==
    {i \in 1..Len(md) : IsParameterLine(md[i]) /\ md[i].args[1] = in /\ md[i].args[2] = name}

\* the type a parameter declares, on itself or in its schema
DeclaredType(prm) ==
    IF prm.type # <<>> THEN prm.type
    ELSE IF prm.schema # Nil /\ Val(prm.schema).type # <<>> THEN Val(prm.schema).type[1]
    ELSE <<45>>

\* the line at position j shows the parameter prm (its type is compared
\* when the parameter declares one plain type or none)
ShowsParameter(md, j, prm) ==
    (prm.schema = Nil
        \/ (Val(prm.schema).ref = <<>> /\ Len(Val(prm.schema).type) = 1
               /\ Val(prm.schema).items = Nil))
      => md[j].args[3] = DeclaredType(prm)

\* the operations that the rendered document shows exactly once
ShownOnce(d, adapter) == {s \in OperationsOf(d, adapter) : Len(Val(d.paths)[s].tags) <= 1}

\* the part of the statement about the parameters of the operation alone
C20_OwnParametersRendered ==
    (Rendered /\ data.paths # Nil /\ Cardinality(OperationsOf(data, RenderedBy)) = 1) =>
        \A s \in ShownOnce(data, RenderedBy) :
            LET op == Val(data.paths)[s]
            IN  \A i \in DOMAIN op.parameters :
                    \E j \in ParameterLinesFor(ret.md, op.parameters[i].in, op.parameters[i].name) :
                        ShowsParameter(ret.md, j, op.parameters[i])

C20_ParametersCombined ==
    (Rendered /\ data.paths # Nil /\ Cardinality(OperationsOf(data, RenderedBy)) = 1) =>
        \A s \in ShownOnce(data, RenderedBy) :
            LET op == Val(data.paths)[s]
                own == {<<op.parameters[i].in, op.parameters[i].name>> : i \in DOMAIN op.parameters}
            IN  /\ \A i \in 1..Len(ret.md) :
                       IsParameterLine(ret.md[i]) =>
                           Cardinality(ParameterLinesFor(ret.md, ret.md[i].args[1],
                                                         ret.md[i].args[2])) = 1
                /\ \A i \in DOMAIN op.parameters :
                       \E j \in ParameterLinesFor(ret.md, op.parameters[i].in,
                                                  op.parameters[i].name) :
                           ShowsParameter(ret.md, j, op.parameters[i])
                /\ \A i \in DOMAIN op.piParameters :
                       <<op.piParameters[i].in, op.piParameters[i].name>> \notin own =>
                           \E j \in ParameterLinesFor(ret.md, op.piParameters[i].in,
                                                      op.piParameters[i].name) :
                               ShowsParameter(ret.md, j, op.piParameters[i])

(***************************************************************************)
(* Reading the section of one operation back.                              *)
(***************************************************************************)
IsHeading(l) == IsH2(l) \/ IsH3(l) \/ IsH4(l)

\* the positions of the operation headings of md
OperationPositions(md) == {i \in 1..Len(md) : IsH4(md[i])}

\* the index after the last line of the operation whose heading is line i
OperationEnd(md, i) ==
    IF \E j \in (i + 1)..Len(md) : IsHeading(md[j])
    THEN CHOOSE j \in (i + 1)..Len(md) :
            IsHeading(md[j]) /\ \A k \in (i + 1)..(j - 1) : ~IsHeading(md[k])
    ELSE Len(md) + 1

\* the lines of the operation whose heading is line i
OperationLines(md, i) == SubSeq(md, i + 1, OperationEnd(md, i) - 1)

\* the operation of the document that the heading at line i names
OperationAt(d, md, i) == Val(d.paths)[<<md[i].args[2], md[i].args[1]>>]

\* the status keys of the response lines of an operation, in order of appearance
StatusSeq(md, i) ==
    LET ls == SelectSeq(OperationLines(md, i), IsResponseLine)
    IN  [j \in 1..Len(ls) |-> StatusOn(ls[j])]

DeclaredKeys(op) == IF op.responses = Nil THEN {} ELSE DOMAIN Val(op.responses)

IsDefaultKey(key) == key = <<100, 101, 102, 97, 117, 108, 116>>

\* the value of a string of digits
NumberOf(str) ==
    LET RECURSIVE value(_)
        value(n) == IF n = 0 THEN 0 ELSE 10 * value(n - 1) + (str[n] - 48)
    IN  value(Len(str))

\* the key a stands before the key b in the list of the dialect
KeyBefore(a, b, adapter) ==
    /\ ~IsDefaultKey(a)
    /\ \/ IsDefaultKey(b)
       \/ IF adapter = "A" THEN NumberOf(a) < NumberOf(b) ELSE LexLess(a, b)

(***************************************************************************)
(* C21  The Responses block of an operation lists every declared response  *)
(* key exactly once, in ascending order (numeric order in dialect A,       *)
(* lexicographic order of the key strings in dialect B), with the default  *)
(* response after all status codes; no declared response is dropped.       *)
(***************************************************************************)
C21_ResponsesListed ==
    (Rendered /\ data.paths # Nil) =>
        \A i \in OperationPositions(ret.md) :
            LET keys == StatusSeq(ret.md, i)
            IN  /\ Range(keys) = DeclaredKeys(OperationAt(data, ret.md, i))
                /\ \A j \in 1..(Len(keys) - 1) : KeyBefore(keys[j], keys[j + 1], RenderedBy)

C21_Witness ==
    /\ Rendered /\ RenderedBy = "A" /\ data.paths # Nil
    /\ \E i \in OperationPositions(ret.md) :
           StatusSeq(ret.md, i) = <<Str_99, Str_200, Str_default>>

(***************************************************************************)
(* C22  Every response that carries examples has all of them rendered as   *)
(* example blocks directly under its own status line in the endpoint       *)
(* section, for numeric status codes and for the default response alike,   *)
(* in both dialects.                                                       *)
(***************************************************************************)
\* the examples rendered under the status line for key in the operation
\* whose heading is line i: (name or Nil, media type)
RenderedExamples(md, i, key) ==
    {<<IF IsNamedLabel(md[p]) THEN Some(md[p].args[1]) ELSE Nil, MediaTypeOn(md[p])>> :
        p \in {q \in LabelPositions(md) :
                  /\ i < q /\ q < OperationEnd(md, i)
                  /\ InResponses(md, q)
                  /\ EnclosingStatus(md, q) = key}}

\* the examples the response r carries
CarriedExamples(r, adapter) ==
    IF adapter = "A" THEN {<<Nil, mt>> : mt \in r.examples}
    ELSE {<<Nil, mt>> : mt \in IF r.anon THEN r.examples ELSE {}}
            \cup {<<Some(name), mt>> : name \in r.named, mt \in r.examples}

\* the statement without the default response of dialect A
C22_ExamplesRenderedOutsideDefaultA ==
    (Rendered /\ data.paths # Nil) =>
        \A i \in OperationPositions(ret.md) :
            \A key \in DeclaredKeys(OperationAt(data, ret.md, i)) :
                (RenderedBy = "A" /\ IsDefaultKey(key))
                    \/ RenderedExamples(ret.md, i, key)
                         = CarriedExamples(Val(OperationAt(data, ret.md, i).responses)[key],
                                           RenderedBy)

C22_ExamplesRendered ==
    (Rendered /\ data.paths # Nil) =>
        \A i \in OperationPositions(ret.md) :
            \A key \in DeclaredKeys(OperationAt(data, ret.md, i)) :
                RenderedExamples(ret.md, i, key)
                    = CarriedExamples(Val(OperationAt(data, ret.md, i).responses)[key],
                                      RenderedBy)

(***************************************************************************)
(* C23  In a rendered operation each of the sub-headings "**Parameters**", *)
(* "**Request Body**" and "**Responses**" is emitted only when at least    *)
(* one entry line follows it: an operation with no renderable parameters,  *)
(* request-body content or responses omits the sub-heading, and no         *)
(* sub-heading is printed with an empty body.                              *)
(***************************************************************************)
IsRequestBodyLine(l) == l.k = "- %s - schema: %s"

\* in the lines ls every sub-heading named k is followed by an entry line
FollowedByEntry(ls, k, IsEntry(_)) ==
    \A j \in 1..Len(ls) : ls[j].k = k => (j < Len(ls) /\ IsEntry(ls[j + 1]))

HasSubheading(ls, k) == \E j \in 1..Len(ls) : ls[j].k = k

\* what the operation op gives the adapter to render under each sub-heading
HasParameters(op, adapter) ==
    Len(op.parameters) > 0 \/ (adapter = "B" /\ Len(op.piParameters) > 0)
HasRequestContent(op, adapter) ==
    adapter = "B" /\ op.requestBody # Nil /\ Val(op.requestBody).content # {}
HasResponses(op) == DeclaredKeys(op) # {}

IsPropertyLine(l) == l.k = "- '%s' (%s)%s%s%s"

\* the property lines under the heading of the definition name
PropertyLinesOf(md, name) ==
    LET sec == SectionLines(md, HeadingIndex(md, "## Schemas"))
        at == CHOOSE i \in 1..Len(sec) : sec[i] = H3(name)
        end == IF \E j \in (at + 1)..Len(sec) : IsH3(sec[j])
               THEN CHOOSE j \in (at + 1)..Len(sec) :
                       IsH3(sec[j]) /\ \A k \in (at + 1)..(j - 1) : ~IsH3(sec[k])
               ELSE Len(sec) + 1
    IN  SelectSeq(SubSeq(sec, at + 1, end - 1), IsPropertyLine)

\* the annotations a line has to show for the texts def and enum
DefaultShown(def) == <<32, 91, 100, 101, 102, 97, 117, 108, 116, 58, 32>> \o def \o <<93>>
EnumShown(enum) == <<32, 91, 101, 110, 117, 109, 58, 32>> \o enum \o <<93>>

RECURSIVE CommaSpaceJoined(_)
CommaSpaceJoined(texts) ==
    IF Len(texts) = 0 THEN <<>>
    ELSE IF Len(texts) = 1 THEN texts[1]
    ELSE texts[1] \o <<44, 32>> \o CommaSpaceJoined(Tail(texts))

\* the text of a value: the string itself, the decimal numeral of a number
TextOf(v) ==
    IF v.t = "string" THEN v.s
    ELSE CHOOSE t \in {Itoa(n) : n \in 0..99} : NumberOf(t) = v.n

EnumText(enum) == CommaSpaceJoined([i \in 1..Len(enum) |-> TextOf(enum[i])])

\* the names in order, each once, and the marker of the required ones
PropertyNamesAndMarkers(d, name) ==
    LET ls == PropertyLinesOf(ret.md, name)
        props == PropertiesOf(d, name)
    IN  /\ Len(ls) = Cardinality(DOMAIN props)
        /\ {ls[j].args[1] : j \in 1..Len(ls)} = DOMAIN props
        /\ \A j \in 1..(Len(ls) - 1) : LexLess(ls[j].args[1], ls[j + 1].args[1])
        /\ \A j \in 1..Len(ls) :
               ls[j].args[3] = IF \E k \in 1..Len(RequiredOf(d, name)) :
                                       RequiredOf(d, name)[k] = ls[j].args[1]
                               THEN <<32, 40, 114, 101, 113, 117, 105, 114, 101, 100, 41>>
                               ELSE <<>>

(***************************************************************************)
(* C24  In the Schemas section each property line shows the marker         *)
(* " (required)" exactly when the property name is in the required list of *)
(* the schema, a "[default: v]" annotation exactly when the property       *)
(* declares a default value, and an "[enum: v1, v2, ...]" annotation       *)
(* (values in declared order) exactly when it declares a non-empty enum    *)
(* list, the default before the enum, the lines in lexicographic order of  *)
(* the property names.                                                     *)
(***************************************************************************)
\* the statement for defaults and enum lists whose text is not empty
C24_AnnotationsOfNonEmptyText ==
    Rendered =>
        \A name \in data.schemas :
            /\ PropertyNamesAndMarkers(data, name)
            /\ \A j \in 1..Len(PropertyLinesOf(ret.md, name)) :
                   LET l == PropertyLinesOf(ret.md, name)[j]
                       node == PropertiesOf(data, name)[l.args[1]]
                   IN  /\ l.args[4] = IF node.default # Nil /\ TextOf(Val(node.default)) # <<>>
                                       THEN DefaultShown(TextOf(Val(node.default)))
                                       ELSE <<>>
                       /\ l.args[5] = IF EnumText(node.enum) # <<>>
                                       THEN EnumShown(EnumText(node.enum))
                                       ELSE <<>>

C24_PropertyAnnotations ==
    Rendered =>
        \A name \in data.schemas :
            /\ PropertyNamesAndMarkers(data, name)
            /\ \A j \in 1..Len(PropertyLinesOf(ret.md, name)) :
                   LET l == PropertyLinesOf(ret.md, name)[j]
                       node == PropertiesOf(data, name)[l.args[1]]
                   IN  /\ l.args[4] = IF node.default # Nil
                                       THEN DefaultShown(TextOf(Val(node.default)))
                                       ELSE <<>>
                       /\ l.args[5] = IF Len(node.enum) > 0
                                       THEN EnumShown(EnumText(node.enum))
                                       ELSE <<>>

(***************************************************************************)
(* Reading the example values back: the value is the line after the fence. *)
(***************************************************************************)
ValueAt(md, p) == md[p + 2].args[1]

\* the labels of the request examples of the operation whose heading is line i
RequestBlocks(md, i) ==
    {p \in LabelPositions(md) : i < p /\ p < OperationEnd(md, i) /\ InRequest(md, p)}

\* the lines under the heading of the definition name
DefinitionLines(md, name) ==
    LET sec == SectionLines(md, HeadingIndex(md, "## Schemas"))
        at == CHOOSE i \in 1..Len(sec) : sec[i] = H3(name)
        end == IF \E j \in (at + 1)..Len(sec) : IsH3(sec[j])
               THEN CHOOSE j \in (at + 1)..Len(sec) :
                       IsH3(sec[j]) /\ \A k \in (at + 1)..(j - 1) : ~IsH3(sec[k])
               ELSE Len(sec) + 1
    IN  SubSeq(sec, at + 1, end - 1)

\* the example values rendered for the definition name, in order
DefinitionExampleValues(md, name) ==
    LET ls == DefinitionLines(md, name)
        at == SelectSeq([j \in 1..Len(ls) |-> j], LAMBDA j : ls[j].k = "fence %s")
    IN  [j \in 1..Len(at) |-> ls[at[j] + 1].args[1]]

\* the example values of the body of the operation op: those of its first
\* body parameter that has a schema
BodySources(op) ==
    LET at == {j \in 1..Len(op.parameters) :
                  op.parameters[j].in = <<98, 111, 100, 121>> /\ op.parameters[j].schema # Nil}
    IN  IF at = {} THEN NoExamples
        ELSE op.parameters[CHOOSE j \in at : \A k \in at : j <= k].example

\* the value to render: a standard example if there is one, the vendor
\* extension only if there is none
PreferredValues(sources) ==
    IF sources.standard # Nil THEN {Val(sources.standard)}
    ELSE IF sources.items # Nil THEN {Val(sources.items)}
    ELSE IF sources.vendor # Nil THEN {Val(sources.vendor)}
    ELSE {}

(***************************************************************************)
(* C25  For dialect-A schemas a vendor-extension example ("x-example") is  *)
(* used only as a fallback: whenever a standard example value is present   *)
(* on the schema (for a request body: on the body schema or on its item    *)
(* schema) that value is the one rendered and the vendor-extension value   *)
(* is never rendered.  Every example block produced for a schema shows     *)
(* that one value: a schema definition gets at most one block, a request   *)
(* body one block per consumed media type.                                 *)
(***************************************************************************)
C25_VendorExampleIsFallback ==
    (Rendered /\ RenderedBy = "A") =>
        /\ data.paths # Nil =>
               \A i \in OperationPositions(ret.md) :
                   {ValueAt(ret.md, p) : p \in RequestBlocks(ret.md, i)}
                       = PreferredValues(BodySources(OperationAt(data, ret.md, i)))
        /\ \A name \in data.schemas :
               LET shown == DefinitionExampleValues(ret.md, name)
               IN  /\ Len(shown) <= 1
                   /\ Range(shown) = PreferredValues(ExamplesOf(data, name))

C25_Witness ==
    /\ Rendered /\ RenderedBy = "A" /\ data.paths # Nil
    /\ \E i \in OperationPositions(ret.md) :
           LET sources == BodySources(OperationAt(data, ret.md, i))
           IN  /\ sources.standard # Nil /\ sources.vendor # Nil
               /\ Cardinality(RequestBlocks(ret.md, i)) = 2
               /\ \A p \in RequestBlocks(ret.md, i) :
                      ValueAt(ret.md, p) = Val(sources.standard)

\* the statement as first given: at most one example block per schema, also
\* for the schema of a request body
C25_OneBlockPerSchema ==
    (Rendered /\ RenderedBy = "A") =>
        /\ data.paths # Nil =>
               \A i \in OperationPositions(ret.md) :
                   /\ Cardinality(RequestBlocks(ret.md, i)) <= 1
                   /\ {ValueAt(ret.md, p) : p \in RequestBlocks(ret.md, i)}
                          = PreferredValues(BodySources(OperationAt(data, ret.md, i)))
        /\ \A name \in data.schemas :
               LET shown == DefinitionExampleValues(ret.md, name)
               IN  /\ Len(shown) <= 1
                   /\ Range(shown) = PreferredValues(ExamplesOf(data, name))

(***************************************************************************)
(* C26  The format parser of the command accepts exactly the values        *)
(* "auto", "" (treated as auto), "json" and "yaml", mapping them to the    *)
(* auto, json and yaml input formats, and returns an error with no usable  *)
(* format for every other string.                                          *)
(***************************************************************************)
\* the flag has been parsed
FlagParsed == formatFlag # Nil /\ pc # "main"

\* the format the statement gives the flag, "" when it gives none
FormatFor(flag) ==
    IF flag \in {<<97, 117, 116, 111>>, <<>>} THEN "auto"
    ELSE IF flag = <<106, 115, 111, 110>> THEN "json"
    ELSE IF flag = <<121, 97, 109, 108>> THEN "yaml"
    ELSE ""

C26_FormatFlag ==
    FlagParsed =>
        LET flag == Val(formatFlag)
            parsed == parseFormatFlag(flag)
        IN  /\ parsed.format = FormatFor(flag)
            /\ parsed.err = NoErr <=> FormatFor(flag) # ""
            /\ IF FormatFor(flag) = ""
               THEN pc = "exit" /\ ret = NoResult /\ calls = <<>>
               ELSE pc # "exit" /\ opts.Format = FormatFor(flag)

C26_Witness ==
    /\ FlagParsed /\ pc = "exit"
    /\ Val(formatFlag) = <<74, 83, 79, 78>>

(***************************************************************************)
(* C27  Rendering terminates on every schema graph, also when definitions  *)
(* refer to themselves or to each other cyclically and when arrays are     *)
(* nested to any depth: a descriptor is built from the node itself and     *)
(* from its direct item schema only; no reference is followed into the     *)
(* definition it names and no deeper item or property is expanded.         *)
(***************************************************************************)
\* the descriptors that can be built from the $ref, the types and the
\* format of the node n and from the $ref and the types of its direct item
LocalTexts(n) ==
    {<<45>>, <<111, 98, 106, 101, 99, 116>>, <<97, 114, 114, 97, 121>>}
        \cup (IF n.ref # <<>>
              THEN {LastSegment(n.ref), <<36, 114, 101, 102, 58>> \o LastSegment(n.ref)}
              ELSE {})
        \cup (IF n.type # <<>>
              THEN {CommaJoined(n.type),
                    CommaJoined(n.type) \o <<32, 40>> \o n.format \o <<41>>}
              ELSE {})
        \cup (IF n.items # Nil /\ Val(n.items).ref # <<>>
              THEN {LastSegment(Val(n.items).ref) \o <<91, 93>>}
              ELSE {})
        \cup (IF n.items # Nil /\ Val(n.items).type # <<>>
              THEN {<<97, 114, 114, 97, 121, 60>> \o CommaJoined(Val(n.items).type) \o <<62>>}
              ELSE {})

\* the descriptors that can be built for a schema that may be absent
LocalTextsOf(schema) ==
    IF schema = Nil THEN {<<45>>} ELSE LocalTexts(Val(schema))

\* the descriptors that can be built for the responses of the operation op
ResponseTexts(op) ==
    IF op.responses = Nil THEN {}
    ELSE UNION {LocalTextsOf(Val(op.responses)[key].schema) :
                   key \in DOMAIN Val(op.responses)}

\* the definitions refer to each other in a cycle of two
MutualReference(d) ==
    \E n1, n2 \in DOMAIN d.properties :
        /\ n1 # n2
        /\ \E pn \in DOMAIN d.properties[n1] : LastSegment(d.properties[n1][pn].ref) = n2
        /\ \E pn \in DOMAIN d.properties[n2] : LastSegment(d.properties[n2][pn].ref) = n1

\* the node is an array of arrays of arrays
ThreeDeep(n) ==
    /\ n.items # Nil
    /\ Val(n.items).items # Nil
    /\ Val(Val(n.items).items).items # Nil

C27_SummaryIsLocal ==
    Rendered =>
        /\ \A name \in DOMAIN data.properties :
               \A j \in 1..Len(PropertyLinesOf(ret.md, name)) :
                   LET l == PropertyLinesOf(ret.md, name)[j]
                   IN  l.args[2] \in LocalTexts(data.properties[name][l.args[1]])
        /\ data.paths # Nil =>
               \A i \in OperationPositions(ret.md) :
                   ResponseDescriptors(OperationLines(ret.md, i))
                       \subseteq ResponseTexts(OperationAt(data, ret.md, i))

C27_Witness ==
    /\ Rendered /\ RenderedBy = "B"
    /\ MutualReference(data)
    /\ \E pn \in DOMAIN data.properties[Str_Pet] : ThreeDeep(data.properties[Str_Pet][pn])
    /\ \E j \in 1..Len(PropertyLinesOf(ret.md, Str_Pet)) :
           PropertyLinesOf(ret.md, Str_Pet)[j].args[2]
               = <<97, 114, 114, 97, 121, 60, 97, 114, 114, 97, 121, 62>>

(***************************************************************************)
(* C28  The Examples index agrees with the endpoint sections: the line     *)
(* "<METHOD> <path> <status> - has inline examples" stands in the index    *)
(* if and only if at least one "Response example (...)" block is rendered  *)
(* for that response, and it stands there at most once however many tags   *)
(* the operation has.                                                      *)
(***************************************************************************)
IsIndexLine(l) ==
    l.k \in {"- %s %s %d - has inline examples", "- %s %s %s - has inline examples"}

\* the lines of the Examples index
IndexLines(md) == SelectSeq(SectionLines(md, HeadingIndex(md, "## Examples")), IsIndexLine)

\* how often the index names the response
IndexCount(md, method, path, key) ==
    Len(SelectSeq(IndexLines(md), LAMBDA l : l.args = <<method, path, key>>))

\* the index and the blocks agree on the response key of the operation at line i
IndexAgrees(md, i, key) ==
    IndexCount(md, md[i].args[1], md[i].args[2], key)
        = IF RenderedExamples(md, i, key) # {} THEN 1 ELSE 0

\* the only examples of the response are named examples without a value
OnlyValueless(r) ==
    /\ r.examples # {} /\ r.external # {}
    /\ ~r.anon /\ r.named = {}

\* the statement for the responses that have an example with a value, or none
C28_IndexMatchesBlocksWithValues ==
    (Rendered /\ data.paths # Nil) =>
        \A i \in OperationPositions(ret.md) :
            \A key \in DeclaredKeys(OperationAt(data, ret.md, i)) :
                OnlyValueless(Val(OperationAt(data, ret.md, i).responses)[key])
                    \/ IndexAgrees(ret.md, i, key)

C28_IndexMatchesBlocks ==
    (Rendered /\ data.paths # Nil) =>
        \A i \in OperationPositions(ret.md) :
            \A key \in DeclaredKeys(OperationAt(data, ret.md, i)) :
                IndexAgrees(ret.md, i, key)

(***************************************************************************)
(* C29  The fallback across the dialects is entered only on the ambiguous  *)
(* path: when a version probe matches (the legacy marker starts with       *)
(* "2.0", or the modern marker starts with "3.") exactly one adapter is    *)
(* invoked, and when it fails its error is returned to the caller          *)
(* unchanged, without an attempt at the other dialect.                     *)
(***************************************************************************)
ProbeMatches(d) == StartsWith20(d.swagger) \/ StartsWith3dot(d.openapi)

C29_OneAdapterWhenProbeMatches ==
    /\ mode = "fallback" => ~ProbeMatches(data)
    /\ (mode # "none" /\ ProbeMatches(data)) =>
           /\ Len(calls) <= 1
           /\ pc \notin {"A.parse", "B.parse"} => Len(calls) = 1
           /\ pc = "done" => ret = aret

C29_Witness ==
    /\ pc = "done" /\ ProbeMatches(data)
    /\ Len(calls) = 1
    /\ ret.err # NoErr /\ ret = aret
    /\ IF calls[1] = "A" THEN data.acceptsB ELSE data.acceptsA

(***************************************************************************)
(* C30  Every level-3 heading under Endpoints by Tag is unique: no two     *)
(* "###" headings of that section have the same text; "### Untagged"       *)
(* stands there at most once and holds only operations whose tag list is   *)
(* empty, also when an operation declares a tag named "Untagged".          *)
(***************************************************************************)
\* the headings of the groups are pairwise different, and the operations
\* under "### Untagged" have no tags
GroupsDistinct(d, md) ==
    LET e == EndpointLines(md)
        hs == SelectSeq(e, IsH3)
    IN  /\ \A i, j \in 1..Len(hs) : i < j => hs[i] # hs[j]
        /\ \A i \in 1..Len(e) :
               (IsH4(e[i]) /\ GroupOf(e, i) = H3(Str_Untagged))
                   => Val(d.paths)[<<e[i].args[2], e[i].args[1]>>].tags = <<>>

\* some operation of the document has a tag with the name of the bucket
BucketNameUsed(d) ==
    \E s \in DOMAIN Val(d.paths) : Str_Untagged \in Range(Val(d.paths)[s].tags)

\* the statement for the documents without a tag named "Untagged"
C30_HeadingsUniqueOtherTags ==
    (Rendered /\ data.paths # Nil /\ ~BucketNameUsed(data)) => GroupsDistinct(data, ret.md)

C30_HeadingsUnique ==
    (Rendered /\ data.paths # Nil) => GroupsDistinct(data, ret.md)

====
